---------------------------- MODULE Spec2Model ----------------------------
(***************************************************************************)
(* Music-Theory-Scale-Drop: notes, clefs, key signatures, scales, the      *)
(* constrained scale generator (src/scale.py, src/useful.py) and the key   *)
(* handler of the game (src/main.py).                                      *)
(*                                                                         *)
(* Python strings are modelled as sequences of one-character strings, so   *)
(* that formatting a note and parsing it back is a real conversion.        *)
(* Glyph strings for the game font are sequences of code points.           *)
(***************************************************************************)
EXTENDS Integers, Sequences, FiniteSets, TLC

VARIABLES
    \* walking up from a note
    start_note,   \* the note the walk started on
    walk_note,    \* the note the walk has reached
    steps_done,   \* number of up_by calls made
    steps_sum,    \* sum of the half steps applied so far
    walk_length,  \* the scale_length argument passed to up_by
    \* Settings, as world.settings
    settings,
    \* the Scale object and the locals of its constructor
    scale,        \* [pattern, starts_on, clef], or NoScale
    gen,          \* locals of Scale.__init__: scale_type, clef, starts_on, possible_starts
    display_text, \* scale.display.text
    \* Scale.__str__
    pc,           \* "idle", or "str" inside the loop of Scale.__str__
    this_note,    \* the loop variable this_note
    disp_text,    \* the local disp_text
    str_i,        \* index into self.pattern + [2]
    shown,        \* the notes whose string_form was appended, in order
    \* a single call of a pure method and what it returned
    call,
    ret,
    err,          \* the exception that ended the last operation, or "none"
    \* World, with the falling boulders
    boulders,     \* world.boulders, in insertion order
    score,        \* world.score
    selected,     \* world.selected, the x of the selected boulder or 0
    spawned,      \* how many boulders the run has created
    \* the settings menu
    menu,           \* the SettingsScreen: open, active_sub_menu, active_sub_menu_left, sub_menu
    default_config, \* the module-level dictionary DEFAULT_CONFIG, as it is now
    config_file,    \* what .config.json holds, or NoFile
    aliased,        \* the fields of settings that are the list objects of DEFAULT_CONFIG
    presses,        \* keys handled by the settings menu so far
    \* the designer objects of the Scale, and its traversals
    objects,        \* background, display and blur: position, size, visibility
    traversals      \* the completed traversals: which method, and the notes it visited

walk_vars == <<start_note, walk_note, steps_done, steps_sum, walk_length>>

scale_vars == <<scale, gen, display_text>>

str_vars == <<pc, this_note, disp_text, str_i, shown>>

call_vars == <<call, ret>>

world_vars == <<boulders, score, selected, spawned>>

menu_vars == <<menu, default_config, config_file, aliased, presses>>

object_vars == <<objects, traversals>>

vars == <<walk_vars, settings, scale_vars, str_vars, call_vars, err, world_vars,
          menu_vars, object_vars>>

-----------------------------------------------------------------------------
(* Bounds of the model *)

\* accidentals on input notes range over -MaxAccidentals..MaxAccidentals
MaxAccidentals == 2

\* the settings menu handles at most MaxPresses keys in a run
MaxPresses == 7

\* the boulders of a world being selected from are in the columns 1..MaxColumn
MaxColumn == 3

\* a walk makes at most MaxWalk steps
MaxWalk == 7

\* the settings enable at most MaxEnabled scale types and MaxEnabled clefs
MaxEnabled == 1

\* a run of the game creates at most MaxSpawns boulders
MaxSpawns == 2

\* the height of the window, in steps of the fall
WindowHeight == 1

\* a boulder is guessed wrong at most MaxHalvings times
MaxHalvings == 2

-----------------------------------------------------------------------------
(* Characters and small helpers *)

SHARP == "#"
FLAT == "b"
NoNote == [letter |-> "-", sharp_flat |-> <<>>, octave |-> 0]

DigitChars == <<"0", "1", "2", "3", "4", "5", "6", "7", "8", "9">>

LetterChars == <<"A", "B", "C", "D", "E", "F", "G">>

\* ord(): the code point of the characters the program meets
Ord(c) ==
    CASE c = "#" -> 35
      [] c = "-" -> 45
      [] c = "0" -> 48 [] c = "1" -> 49 [] c = "2" -> 50 [] c = "3" -> 51
      [] c = "4" -> 52 [] c = "5" -> 53 [] c = "6" -> 54 [] c = "7" -> 55
      [] c = "8" -> 56 [] c = "9" -> 57
      [] c = "A" -> 65 [] c = "B" -> 66 [] c = "C" -> 67 [] c = "D" -> 68
      [] c = "E" -> 69 [] c = "F" -> 70 [] c = "G" -> 71 [] c = "H" -> 72
      [] c = "W" -> 87
      [] c = "b" -> 98

\* chr() on the range of the capital letters
Chr(n) == CHOOSE c \in {"A", "B", "C", "D", "E", "F", "G", "H"} : Ord(c) = n

IsDigit(c) == \E i \in 1..10 : DigitChars[i] = c

DigitValue(c) == (CHOOSE i \in 1..10 : DigitChars[i] = c) - 1

\* Python's s * n for a one-character string s: empty when n <= 0
RECURSIVE Repeat(_, _)
Repeat(c, n) == IF n <= 0 THEN <<>> ELSE <<c>> \o Repeat(c, n - 1)

\* str() of an integer, as the f-string of up_by formats the octave
RECURSIVE IntToStr(_)
IntToStr(n) ==
    IF n < 0 THEN <<"-">> \o IntToStr(-n)
    ELSE IF n < 10 THEN <<DigitChars[n + 1]>>
    ELSE IntToStr(n \div 10) \o <<DigitChars[(n % 10) + 1]>>

pm_bool(b) == (IF b THEN 1 ELSE 0) * 2 - 1

get_next_letter(letter) ==
    LET num == (Ord(letter) - Ord("A") + 1) % 7
    IN  Chr(num + Ord("A"))

-----------------------------------------------------------------------------
(* Note *)

\* the number of sharps minus the number of flats among the characters of s
RECURSIVE CountAccidentals(_)
CountAccidentals(s) ==
    IF s = <<>> THEN 0
    ELSE (IF Head(s) = "#" THEN 1 ELSE IF Head(s) = "b" THEN -1 ELSE 0)
         + CountAccidentals(Tail(s))

\* which exception Note(note) raises, "none" when it constructs
NoteError(note) ==
    IF note = <<>> THEN "IndexError"
    ELSE IF ~(Ord("A") <= Ord(note[1]) /\ Ord(note[1]) <= Ord("G"))
         THEN "InvalidNoteLetterError"
    ELSE IF ~IsDigit(note[Len(note)]) THEN "InvalidOctaveError"
    ELSE "none"

\* Note.__init__ on a string that constructs
Note(note) ==
    LET sharps_flats == CountAccidentals(SubSeq(note, 2, Len(note) - 1))
    IN  [letter     |-> note[1],
         sharp_flat |-> Repeat(SHARP, sharps_flats) \o Repeat(FLAT, -sharps_flats),
         octave     |-> DigitValue(note[Len(note)])]

get_sharp_flat(n) ==
    IF n.sharp_flat = <<>> THEN 0
    ELSE Len(n.sharp_flat) * pm_bool(n.sharp_flat[1] = SHARP)

\* the string up_by hands to Note(): f"{temp_letter}{temp_sharp_flat}{temp_octave}"
\* the letter moved on for the scales of eight notes as for those of seven
UpByStringEightAsSeven(n, half_steps, scale_length) ==
    LET seven      == scale_length \in {7, 8}
        temp_letter == IF seven THEN get_next_letter(n.letter) ELSE n.letter
        temp_num    == get_sharp_flat(n) + half_steps
                       - (IF seven
                          THEN (IF n.letter \in {"B", "E"} THEN 1 ELSE 2)
                          ELSE 0)
        temp_octave == n.octave
                       + (IF seven /\ n.letter = "B" THEN 1 ELSE 0)
    IN  <<temp_letter>> \o Repeat(SHARP, temp_num) \o Repeat(FLAT, -temp_num)
        \o IntToStr(temp_octave)

\* every letter taken to be a whole step below the next, B and E as well
UpByStringAllWholeLetters(n, half_steps, scale_length) ==
    LET seven      == scale_length = 7
        temp_letter == IF seven THEN get_next_letter(n.letter) ELSE n.letter
        temp_num    == get_sharp_flat(n) + half_steps - (IF seven THEN 2 ELSE 0)
        temp_octave == n.octave
                       + (IF seven /\ n.letter = "B" THEN 1 ELSE 0)
    IN  <<temp_letter>> \o Repeat(SHARP, temp_num) \o Repeat(FLAT, -temp_num)
        \o IntToStr(temp_octave)

UpByString(n, half_steps, scale_length) ==
    LET seven      == scale_length = 7
        temp_letter == IF seven THEN get_next_letter(n.letter) ELSE n.letter
        temp_num    == get_sharp_flat(n) + half_steps
                       - (IF seven
                          THEN (IF n.letter \in {"B", "E"} THEN 1 ELSE 2)
                          ELSE 0)
        temp_octave == n.octave
                       + (IF seven /\ n.letter = "B" THEN 1 ELSE 0)
    IN  <<temp_letter>> \o Repeat(SHARP, temp_num) \o Repeat(FLAT, -temp_num)
        \o IntToStr(temp_octave)

\* a step of no half steps let through
up_by_error_from_zero(n, half_steps, scale_length) ==
    IF ~(0 <= half_steps /\ half_steps <= 3) THEN "BadSizedScaleJumpError"
    ELSE NoteError(UpByString(n, half_steps, scale_length))

up_by_error(n, half_steps, scale_length) ==
    IF ~(1 <= half_steps /\ half_steps <= 3) THEN "BadSizedScaleJumpError"
    ELSE NoteError(UpByString(n, half_steps, scale_length))

up_by(n, half_steps, scale_length) == Note(UpByString(n, half_steps, scale_length))

-----------------------------------------------------------------------------
(* Constants of scale.py *)

ORDER_OF_SHARPS == <<"F", "C", "G", "D", "A", "E", "B">>

LETTERS_PER_OCTAVE == Len(ORDER_OF_SHARPS)

STAFF_LINES == 5

STAFF_SPACES == 4

LEDGER_LINES == 4

TOTAL_NOTES == STAFF_LINES + STAFF_SPACES + 2 * LEDGER_LINES

NOTES_START == 57344

FLATS_START == 57376

NATURALS_START == 57408

SHARPS_START == 57440

ACCIDENTALS_START(accidental) ==
    IF accidental = SHARP THEN SHARPS_START ELSE FLATS_START

\* Python's seq[a:b], with negative indices counted from the end
PySlice(seq, a, b) ==
    LET n  == Len(seq)
        lo == IF a < 0 THEN (IF n + a < 0 THEN 0 ELSE n + a)
              ELSE (IF a > n THEN n ELSE a)
        hi == IF b < 0 THEN (IF n + b < 0 THEN 0 ELSE n + b)
              ELSE (IF b > n THEN n ELSE b)
    IN  SubSeq(seq, lo + 1, hi)

Elements(seq) == {seq[i] : i \in 1..Len(seq)}

\* lexicographic order of Python strings
RECURSIVE StrLess(_, _)
StrLess(a, b) ==
    IF b = <<>> THEN FALSE
    ELSE IF a = <<>> THEN TRUE
    ELSE IF Ord(Head(a)) # Ord(Head(b)) THEN Ord(Head(a)) < Ord(Head(b))
    ELSE StrLess(Tail(a), Tail(b))

cmp_str(a, b) == (IF StrLess(b, a) THEN 1 ELSE 0) - (IF StrLess(a, b) THEN 1 ELSE 0)

cmp(a, b) == (IF a > b THEN 1 ELSE 0) - (IF a < b THEN 1 ELSE 0)

\* the augmented second left out of the table
int_from_pattern_half_whole(pattern_char) ==
    CASE pattern_char = "H" -> 1
      [] pattern_char = "W" -> 2
      [] OTHER -> 0

int_from_pattern(pattern_char) ==
    CASE pattern_char = "H" -> 1
      [] pattern_char = "W" -> 2
      [] pattern_char = "3" -> 3
      [] OTHER -> 0

RECURSIVE SumSeq(_)
SumSeq(s) == IF s = <<>> THEN 0 ELSE Head(s) + SumSeq(Tail(s))

ensure_octave(pattern) == SumSeq(pattern) = 12

-----------------------------------------------------------------------------
(* The catalog of scale types *)

\* ScaleInfo with its __post_init__: every start with every octave of range(9)
\* the starts left as they are written, without an octave
ScaleInfoOctaveless(name, pattern, possible_starts_octaveless) ==
    [name |-> name,
     pattern |-> pattern,
     possible_starts_octaveless |-> possible_starts_octaveless,
     possible_starts |-> Elements(possible_starts_octaveless)]

ScaleInfo(name, pattern, possible_starts_octaveless) ==
    [name |-> name,
     pattern |-> pattern,
     possible_starts_octaveless |-> possible_starts_octaveless,
     possible_starts |->
        { possible_start \o IntToStr(octave) :
            possible_start \in Elements(possible_starts_octaveless),
            octave \in 0..8 }]

SCALE_TYPE_INFO ==
    [key \in {"q", "w", "e", "r", "1", "2", "3", "4", "5", "6", "7"} |->
    IF key = "q" THEN ScaleInfo("Major", <<"W", "W", "H", "W", "W", "W", "H">>,
        <<<<"C", "b">>, <<"G", "b">>, <<"D", "b">>, <<"A", "b">>, <<"E", "b">>, <<"B", "b">>, <<"F">>,
          <<"C">>, <<"G">>, <<"D">>, <<"A">>, <<"E">>, <<"B">>, <<"F", "#">>, <<"C", "#">>>>)
    ELSE IF key = "w" THEN ScaleInfo("Natural Minor", <<"W", "H", "W", "W", "H", "W", "W">>,
        <<<<"A", "b">>, <<"E", "b">>, <<"B", "b">>, <<"F">>, <<"C">>, <<"G">>, <<"D">>,
          <<"A">>, <<"E">>, <<"B">>, <<"F", "#">>, <<"C", "#">>, <<"G", "#">>, <<"D", "#">>, <<"A", "#">>>>)
    ELSE IF key = "e" THEN ScaleInfo("Harmonic Minor", <<"W", "H", "W", "W", "H", "3", "H">>,
        <<<<"A", "b">>, <<"E", "b">>, <<"B", "b">>, <<"F">>, <<"C">>, <<"G">>, <<"D">>,
          <<"A">>, <<"E">>, <<"B">>, <<"F", "#">>, <<"C", "#">>, <<"G", "#">>, <<"D", "#">>, <<"A", "#">>>>)
    ELSE IF key = "r" THEN ScaleInfo("Melodic Minor", <<"W", "H", "W", "W", "W", "W", "H">>,
        <<<<"A", "b">>, <<"E", "b">>, <<"B", "b">>, <<"F">>, <<"C">>, <<"G">>, <<"D">>,
          <<"A">>, <<"E">>, <<"B">>, <<"F", "#">>, <<"C", "#">>, <<"G", "#">>, <<"D", "#">>, <<"A", "#">>>>)
    ELSE IF key = "1" THEN ScaleInfo("Ionian", <<"W", "W", "H", "W", "W", "W", "H">>,
        <<<<"C", "b">>, <<"G", "b">>, <<"D", "b">>, <<"A", "b">>, <<"E", "b">>, <<"B", "b">>, <<"F">>,
          <<"C">>, <<"G">>, <<"D">>, <<"A">>, <<"E">>, <<"B">>, <<"F", "#">>, <<"C", "#">>>>)
    ELSE IF key = "2" THEN ScaleInfo("Dorian", <<"W", "H", "W", "W", "W", "H", "W">>,
        <<<<"D", "b">>, <<"A", "b">>, <<"E", "b">>, <<"B", "b">>, <<"F">>, <<"C">>, <<"G">>,
          <<"D">>, <<"A">>, <<"E">>, <<"B">>, <<"F", "#">>, <<"C", "#">>, <<"G", "#">>, <<"D", "#">>>>)
    ELSE IF key = "3" THEN ScaleInfo("Phrygian", <<"H", "W", "W", "W", "H", "W", "W">>,
        <<<<"E", "b">>, <<"B", "b">>, <<"F">>, <<"C">>, <<"G">>, <<"D">>, <<"A">>,
          <<"E">>, <<"B">>, <<"F", "#">>, <<"C", "#">>, <<"G", "#">>, <<"D", "#">>, <<"A", "#">>, <<"E", "#">>>>)
    ELSE IF key = "4" THEN ScaleInfo("Lydian", <<"W", "W", "W", "H", "W", "W", "H">>,
        <<<<"F", "b">>, <<"C", "b">>, <<"G", "b">>, <<"D", "b">>, <<"A", "b">>, <<"E", "b">>, <<"B", "b">>,
          <<"F">>, <<"C">>, <<"G">>, <<"D">>, <<"A">>, <<"E">>, <<"B">>, <<"F", "#">>>>)
    ELSE IF key = "5" THEN ScaleInfo("Mixolydian", <<"W", "W", "H", "W", "W", "H", "W">>,
        <<<<"G", "b">>, <<"D", "b">>, <<"A", "b">>, <<"E", "b">>, <<"B", "b">>, <<"F">>, <<"C">>,
          <<"G">>, <<"D">>, <<"A">>, <<"E">>, <<"B">>, <<"F", "#">>, <<"C", "#">>, <<"G", "#">>>>)
    ELSE IF key = "6" THEN ScaleInfo("Aeolian", <<"W", "H", "W", "W", "H", "W", "W">>,
        <<<<"A", "b">>, <<"E", "b">>, <<"B", "b">>, <<"F">>, <<"C">>, <<"G">>, <<"D">>,
          <<"A">>, <<"E">>, <<"B">>, <<"F", "#">>, <<"C", "#">>, <<"G", "#">>, <<"D", "#">>, <<"A", "#">>>>)
    ELSE ScaleInfo("Lochrian", <<"H", "W", "W", "H", "W", "W", "W">>,
        <<<<"B", "b">>, <<"F">>, <<"C">>, <<"G">>, <<"D">>, <<"A">>, <<"E">>,
          <<"B">>, <<"F", "#">>, <<"C", "#">>, <<"G", "#">>, <<"D", "#">>, <<"A", "#">>, <<"E", "#">>, <<"B", "#">>>>)]

\* SCALE_TYPE_INFO of main.py: its starts carry an octave already, and
\* ScaleInfo.__post_init__ appends another
main_SCALE_TYPE_INFO ==
    [key \in {"q", "w", "e", "r"} |->
    IF key = "q" THEN ScaleInfo("Major", <<"W", "W", "H", "W", "W", "W", "H">>,
        <<<<"C", "b", "4">>, <<"G", "b", "4">>, <<"D", "b", "4">>, <<"A", "b", "4">>, <<"E", "b", "4">>, <<"B", "b", "4">>, <<"F", "4">>,
          <<"C", "4">>, <<"G", "4">>, <<"D", "4">>, <<"A", "4">>, <<"E", "4">>, <<"B", "4">>, <<"F", "#", "4">>, <<"C", "#", "4">>>>)
    ELSE IF key = "w" THEN ScaleInfo("Natural Minor", <<"W", "H", "W", "W", "H", "W", "W">>,
        <<<<"A", "b", "4">>, <<"E", "b", "4">>, <<"B", "b", "4">>, <<"F", "4">>, <<"C", "4">>, <<"G", "4">>, <<"D", "4">>,
          <<"A", "4">>, <<"E", "4">>, <<"B", "4">>, <<"F", "#", "4">>, <<"C", "#", "4">>, <<"G", "#", "4">>, <<"D", "#", "4">>, <<"A", "#", "4">>>>)
    ELSE IF key = "e" THEN ScaleInfo("Harmonic Minor", <<"W", "H", "W", "W", "H", "3", "H">>,
        <<<<"A", "b", "4">>, <<"E", "b", "4">>, <<"B", "b", "4">>, <<"F", "4">>, <<"C", "4">>, <<"G", "4">>, <<"D", "4">>,
          <<"A", "4">>, <<"E", "4">>, <<"B", "4">>, <<"F", "#", "4">>, <<"C", "#", "4">>, <<"G", "#", "4">>, <<"D", "#", "4">>, <<"A", "#", "4">>>>)
    ELSE ScaleInfo("Melodic Minor", <<"W", "H", "W", "W", "W", "W", "H">>,
        <<<<"A", "b", "4">>, <<"E", "b", "4">>, <<"B", "b", "4">>, <<"F", "4">>, <<"C", "4">>, <<"G", "4">>, <<"D", "4">>,
          <<"A", "4">>, <<"E", "4">>, <<"B", "4">>, <<"F", "#", "4">>, <<"C", "#", "4">>, <<"G", "#", "4">>, <<"D", "#", "4">>, <<"A", "#", "4">>>>)]

\* name -> key
SCALE_TYPE_KEYS ==
    [name \in {SCALE_TYPE_INFO[key].name : key \in DOMAIN SCALE_TYPE_INFO} |->
        CHOOSE key \in DOMAIN SCALE_TYPE_INFO : SCALE_TYPE_INFO[key].name = name]

NORMAL_SCALE_KEYS == <<"q", "w", "e", "r">>

CHURCH_MODES_KEYS == <<"1", "2", "3", "4", "5", "6", "7">>

NORMAL_SCALE_NAMES == [i \in 1..Len(NORMAL_SCALE_KEYS) |-> SCALE_TYPE_INFO[NORMAL_SCALE_KEYS[i]].name]

CHURCH_MODES_NAMES == [i \in 1..Len(CHURCH_MODES_KEYS) |-> SCALE_TYPE_INFO[CHURCH_MODES_KEYS[i]].name]

-----------------------------------------------------------------------------
(* Clefs *)

Clef(name, symbol, lowest_note, sharps_pattern, flats_pattern) ==
    [name |-> name, symbol |-> symbol, lowest_note |-> lowest_note,
     sharps_pattern |-> sharps_pattern, flats_pattern |-> flats_pattern]

CLEFS ==
    [name \in {"Bass", "Treble", "Baritone", "Tenor", "Alto", "Mezzo-Soprano", "Soprano"} |->
        CASE name = "Bass" ->
                Clef("Bass", 57513, Note(<<"C", "2">>),
                     <<FALSE, TRUE, FALSE, FALSE, TRUE, FALSE>>,
                     <<FALSE, TRUE, FALSE, TRUE, FALSE, TRUE>>)
          [] name = "Treble" ->
                Clef("Treble", 57518, Note(<<"A", "3">>),
                     <<FALSE, TRUE, FALSE, FALSE, TRUE, FALSE>>,
                     <<FALSE, TRUE, FALSE, TRUE, FALSE, TRUE>>)
          [] name = "Baritone" ->
                Clef("Baritone", 57515, Note(<<"E", "2">>),
                     <<TRUE, FALSE, TRUE, FALSE, FALSE, TRUE>>,
                     <<TRUE, FALSE, TRUE, FALSE, TRUE, FALSE>>)
          [] name = "Tenor" ->
                Clef("Tenor", 57517, Note(<<"G", "2">>),
                     <<TRUE, FALSE, TRUE, FALSE, TRUE, FALSE>>,
                     <<FALSE, TRUE, FALSE, TRUE, FALSE, TRUE>>)
          [] name = "Alto" ->
                Clef("Alto", 57519, Note(<<"B", "2">>),
                     <<FALSE, TRUE, FALSE, FALSE, TRUE, FALSE>>,
                     <<FALSE, TRUE, FALSE, TRUE, FALSE, TRUE>>)
          [] name = "Mezzo-Soprano" ->
                Clef("Mezzo-Soprano", 57514, Note(<<"D", "3">>),
                     <<FALSE, TRUE, FALSE, TRUE, FALSE, TRUE>>,
                     <<TRUE, FALSE, TRUE, FALSE, TRUE, FALSE>>)
          [] name = "Soprano" ->
                Clef("Soprano", 57516, Note(<<"F", "3">>),
                     <<TRUE, FALSE, TRUE, FALSE, TRUE, FALSE>>,
                     <<TRUE, FALSE, TRUE, FALSE, TRUE, FALSE>>)]

\* the list Clef.all_notes builds before it is windowed: letter_now, octave_now
\* advance once per iteration, three spellings are appended each time
RECURSIVE AllNotesList(_, _, _)
AllNotesList(letter_now, octave_now, iterations) ==
    IF iterations = 0 THEN <<>>
    ELSE LET next_letter == get_next_letter(letter_now)
         IN  << <<letter_now, FLAT>> \o IntToStr(octave_now),
                <<letter_now>> \o IntToStr(octave_now),
                <<letter_now, SHARP>> \o IntToStr(octave_now) >>
             \o AllNotesList(next_letter,
                             IF next_letter = "C" THEN octave_now + 1 ELSE octave_now,
                             iterations - 1)

\* the window cut with the low limit at both ends
all_notes_low_only(clef, world_settings) ==
    LET all == AllNotesList(clef.lowest_note.letter, clef.lowest_note.octave,
                            TOTAL_NOTES - LETTERS_PER_OCTAVE)
    IN  Elements(PySlice(all,
            3 * (LEDGER_LINES - world_settings.max_low_ledger_positions),
            Len(all) - 3 * (LEDGER_LINES - world_settings.max_low_ledger_positions)))

\* Clef.all_notes(world): the settings stand for world.settings
all_notes(clef, world_settings) ==
    LET all == AllNotesList(clef.lowest_note.letter, clef.lowest_note.octave,
                            TOTAL_NOTES - LETTERS_PER_OCTAVE)
    IN  Elements(PySlice(all,
            3 * (LEDGER_LINES - world_settings.max_low_ledger_positions),
            Len(all) - 3 * (LEDGER_LINES - world_settings.max_high_ledger_positions)))

-----------------------------------------------------------------------------
(* KeySignature *)

KeySignature(sharps_flats) == [sharps_flats |-> sharps_flats]

\* the first letters of the order of sharps, for flats as for sharps
KeySignatureContainsFromFront(key_signature, note) ==
    note.letter \in Elements(PySlice(ORDER_OF_SHARPS, 0,
                                      IF key_signature.sharps_flats < 0
                                      THEN 0 - key_signature.sharps_flats
                                      ELSE key_signature.sharps_flats))

\* KeySignature.__contains__
KeySignatureContains(key_signature, note) ==
    IF key_signature.sharps_flats < 0
    THEN note.letter \in Elements(PySlice(ORDER_OF_SHARPS,
                                          key_signature.sharps_flats,
                                          Len(ORDER_OF_SHARPS)))
    ELSE note.letter \in Elements(PySlice(ORDER_OF_SHARPS, 0,
                                          key_signature.sharps_flats))

\* the test the wrong way round: whether the two types are the same
KeySignatureRxorSame(key_signature, note) ==
    (0 - cmp_str(note.sharp_flat \o <<"A">>, <<"A">>)) = cmp(key_signature.sharps_flats, 0)

\* KeySignature.__rxor__ for a note in the key signature (it raises otherwise)
KeySignatureRxor(key_signature, note) ==
    (0 - cmp_str(note.sharp_flat \o <<"A">>, <<"A">>)) # cmp(key_signature.sharps_flats, 0)

-----------------------------------------------------------------------------
(* Note: staff position and display *)

\* the octave difference taken as it stands, octaves changing at A
font_offset_number_uncorrected(n, clef) ==
    (n.octave - clef.lowest_note.octave) * LETTERS_PER_OCTAVE
    + Ord(n.letter) - Ord(clef.lowest_note.letter) + 1

font_offset_number(n, clef) ==
    LET octave_diff == (n.octave - clef.lowest_note.octave)
                       + (IF Ord(n.letter) < Ord("C") THEN 1 ELSE 0)
                       - (IF Ord(clef.lowest_note.letter) < Ord("C") THEN 1 ELSE 0)
        note_diff   == Ord(n.letter) - Ord(clef.lowest_note.letter) + 1
    IN  octave_diff * LETTERS_PER_OCTAVE + note_diff

accidentals_symbols(n, clef, with_natural) ==
    IF n.sharp_flat = <<>>
    THEN IF ~with_natural THEN <<>>
         ELSE <<NATURALS_START + font_offset_number(n, clef)>>
    ELSE LET accidental == n.sharp_flat[1]
             char_ind   == ACCIDENTALS_START(accidental) + font_offset_number(n, clef)
         IN  [i \in 1..Len(n.sharp_flat) |->
                 IF n.sharp_flat[i] = accidental THEN char_ind ELSE n.sharp_flat[i]]

\* Note.__str__
NoteStr(n) == <<n.letter>> \o n.sharp_flat \o <<" ">> \o IntToStr(n.octave)

NoClef == [name |-> "None"]

\* Note.string_form: glyph code points with a clef, characters without
string_form(n, clef, key_signature, octave) ==
    IF clef # NoClef
    THEN LET accidental ==
                 IF KeySignatureContains(key_signature, n)
                 THEN IF KeySignatureRxor(key_signature, n)
                      THEN accidentals_symbols(n, clef, TRUE)
                      ELSE <<>>
                 ELSE accidentals_symbols(n, clef, FALSE)
             note_on_staff == NOTES_START + font_offset_number(n, clef)
         IN  accidental \o <<note_on_staff>>
    ELSE LET text == NoteStr(n)
         IN  IF ~octave THEN SubSeq(text, 1, Len(text) - 2) ELSE text


-----------------------------------------------------------------------------
(* Settings *)

DEFAULT_CONFIG ==
    [scale_types |-> <<"Major", "Natural Minor", "Harmonic Minor", "Melodic Minor">>,
     clefs |-> <<"Treble", "Bass">>,
     max_sharps_key_signature |-> 4,
     max_flats_key_signature |-> 4,
     max_high_ledger_positions |-> 4,
     max_low_ledger_positions |-> 4]

Min(a, b) == IF a < b THEN a ELSE b

Max(a, b) == IF a > b THEN a ELSE b

\* DEFAULT_CONFIG is read when the method runs: default_config is what the
\* dictionary holds by then
validate_scale_types(s) ==
    IF s.scale_types = <<>>
    THEN [s EXCEPT !.scale_types = default_config.scale_types]
    ELSE s

validate_clefs(s) ==
    IF s.clefs = <<>> THEN [s EXCEPT !.clefs = default_config.clefs] ELSE s

validate_key_signatures(s) ==
    [s EXCEPT
       !.max_sharps_key_signature = Max(Min(@, LETTERS_PER_OCTAVE), 0),
       !.max_flats_key_signature = Max(Min(@, LETTERS_PER_OCTAVE), 0)]

\* the two limits capped from above alone
validate_ledger_lines_capped_only(s) ==
    [s EXCEPT
       !.max_low_ledger_positions = Min(@, LEDGER_LINES),
       !.max_high_ledger_positions = Min(@, LEDGER_LINES)]

validate_ledger_lines(s) ==
    [s EXCEPT
       !.max_low_ledger_positions = Max(Min(@, LEDGER_LINES), 0),
       !.max_high_ledger_positions = Max(Min(@, LEDGER_LINES), 0)]

\* Settings.validate, run by __post_init__
validate(s) ==
    validate_ledger_lines(validate_key_signatures(validate_clefs(validate_scale_types(s))))

-----------------------------------------------------------------------------
(* Scale.__init__ *)

NoScaleInfo == [name |-> "None"]

NoStart == <<"None">>

NoScale == [pattern |-> <<>>]

NoGen == [scale_type |-> NoScaleInfo]

\* the constructor raised: no Scale object exists
ScaleInitFailed(error, locals) == [err |-> error, scale |-> NoScale, gen |-> locals]

\* the fields set from whatever the pattern is
ScaleInitFinishUnchecked(scale_type, starts_on, clef, possible_starts) ==
    LET int_p  == [i \in 1..Len(scale_type.pattern) |->
                      int_from_pattern(scale_type.pattern[i])]
        locals == [scale_type |-> scale_type, clef |-> clef,
                   starts_on |-> starts_on, possible_starts |-> possible_starts]
    IN  IF NoteError(starts_on) # "none"
        THEN ScaleInitFailed(NoteError(starts_on), locals)
        ELSE IF clef \notin DOMAIN CLEFS THEN ScaleInitFailed("KeyError", locals)
        ELSE [err   |-> "none",
              scale |-> [pattern |-> int_p, starts_on |-> Note(starts_on),
                         clef |-> CLEFS[clef]],
              gen   |-> locals]

\* lines 469-483: the pattern is converted and checked, then the fields are set
ScaleInitFinish(scale_type, starts_on, clef, possible_starts) ==
    LET int_p  == [i \in 1..Len(scale_type.pattern) |->
                      int_from_pattern(scale_type.pattern[i])]
        locals == [scale_type |-> scale_type, clef |-> clef,
                   starts_on |-> starts_on, possible_starts |-> possible_starts]
    IN  IF ~ensure_octave(int_p) THEN ScaleInitFailed("InvalidScaleSizeError", locals)
        ELSE IF NoteError(starts_on) # "none"
             THEN ScaleInitFailed(NoteError(starts_on), locals)
        ELSE IF clef \notin DOMAIN CLEFS THEN ScaleInitFailed("KeyError", locals)
        ELSE [err   |-> "none",
              scale |-> [pattern |-> int_p, starts_on |-> Note(starts_on),
                         clef |-> CLEFS[clef]],
              gen   |-> locals]

\* the start drawn from all the starts of the type, whatever the clef can show
ScaleInitStartAnyOctave(world_settings, scale_type, starts_on_arg, clef) ==
    IF starts_on_arg # NoStart
    THEN {ScaleInitFinish(scale_type, starts_on_arg, clef, {})}
    ELSE IF clef \notin DOMAIN CLEFS
         THEN {ScaleInitFailed("KeyError", [scale_type |-> scale_type, clef |-> clef])}
    ELSE {ScaleInitFinish(scale_type, starts_on, clef, scale_type.possible_starts) :
              starts_on \in scale_type.possible_starts}

\* an empty choice answered with the clef's lowest note instead of an error
ScaleInitStartFallback(world_settings, scale_type, starts_on_arg, clef) ==
    IF starts_on_arg # NoStart
    THEN {ScaleInitFinish(scale_type, starts_on_arg, clef, {})}
    ELSE IF clef \notin DOMAIN CLEFS
         THEN {ScaleInitFailed("KeyError", [scale_type |-> scale_type, clef |-> clef])}
    ELSE LET possible_starts ==
                 scale_type.possible_starts \cap all_notes(CLEFS[clef], world_settings)
         IN  IF possible_starts = {}
             THEN {ScaleInitFinish(scale_type,
                                   <<CLEFS[clef].lowest_note.letter>>
                                       \o IntToStr(CLEFS[clef].lowest_note.octave),
                                   clef, possible_starts)}
             ELSE {ScaleInitFinish(scale_type, starts_on, clef, possible_starts) :
                       starts_on \in possible_starts}

\* lines 462-467: the start is drawn from the starts of the type that the clef can show
ScaleInitStart(world_settings, scale_type, starts_on_arg, clef) ==
    IF starts_on_arg # NoStart
    THEN {ScaleInitFinish(scale_type, starts_on_arg, clef, {})}
    ELSE IF clef \notin DOMAIN CLEFS
         THEN {ScaleInitFailed("KeyError", [scale_type |-> scale_type, clef |-> clef])}
    ELSE LET possible_starts ==
                 scale_type.possible_starts \cap all_notes(CLEFS[clef], world_settings)
         IN  IF possible_starts = {}
             THEN {ScaleInitFailed("IndexError",
                       [scale_type |-> scale_type, clef |-> clef,
                        possible_starts |-> possible_starts])}
             ELSE {ScaleInitFinish(scale_type, starts_on, clef, possible_starts) :
                       starts_on \in possible_starts}

\* lines 455-460: the clef is drawn from the enabled clefs that exist
ScaleInitClef(world_settings, scale_type, starts_on_arg, clef_arg) ==
    IF clef_arg # "None"
    THEN ScaleInitStart(world_settings, scale_type, starts_on_arg, clef_arg)
    ELSE LET possible_clefs == Elements(world_settings.clefs) \cap DOMAIN CLEFS
         IN  IF possible_clefs = {}
             THEN {ScaleInitFailed("IndexError", [scale_type |-> scale_type])}
             ELSE UNION {ScaleInitStart(world_settings, scale_type, starts_on_arg, clef) :
                             clef \in possible_clefs}

\* Scale.__init__: every way the constructor can end, choice() being any element
ScaleInitResults(world_settings, scale_type_arg, starts_on_arg, clef_arg) ==
    IF scale_type_arg # NoScaleInfo
    THEN ScaleInitClef(world_settings, scale_type_arg, starts_on_arg, clef_arg)
    ELSE LET possible_scale_types ==
                 Elements(world_settings.scale_types) \cap DOMAIN SCALE_TYPE_KEYS
         IN  IF possible_scale_types = {}
             THEN {ScaleInitFailed("IndexError", NoGen)}
             ELSE UNION {ScaleInitClef(world_settings,
                                       SCALE_TYPE_INFO[SCALE_TYPE_KEYS[name]],
                                       starts_on_arg, clef_arg) :
                             name \in possible_scale_types}

BACKGROUND_WIDTH == 176

BACKGROUND_HEIGHT == 60

\* no Scale, no designer objects
NoObjects == [background |-> [x |-> 0, y |-> 0, width |-> 0, height |-> 0]]

\* rectangle(...), text(...), image(...) as the constructor leaves them: designer
\* puts a new object at its default position, written 0 here, and shows it
ScaleObjects ==
    [background |-> [x |-> 0, y |-> 0,
                     width |-> BACKGROUND_WIDTH, height |-> BACKGROUND_HEIGHT],
     display    |-> [x |-> 0, y |-> 0],
     blur       |-> [x |-> 0, y |-> 0, visible |-> TRUE]]

\* Scale(world, scale_type, starts_on, clef)
ScaleInit(scale_type_arg, starts_on_arg, clef_arg) ==
    /\ pc = "idle"
    /\ \E result \in ScaleInitResults(settings, scale_type_arg, starts_on_arg, clef_arg) :
          /\ err' = result.err
          /\ gen' = result.gen
          /\ scale' = result.scale
          /\ display_text' = <<>>
          /\ objects' = IF result.scale = NoScale THEN NoObjects ELSE ScaleObjects
    /\ call' = [op |-> "Scale", scale_type |-> scale_type_arg,
                 starts_on |-> starts_on_arg, clef |-> clef_arg]
    /\ UNCHANGED <<world_vars, walk_vars, settings, menu_vars, traversals, str_vars, ret>>

-----------------------------------------------------------------------------
(* Scale.__str__, run by Scale.make_text: one action per loop iteration *)

KeySignatureDefault == KeySignature(0)

StrBegin ==
    /\ pc = "idle"
    /\ scale # NoScale
    /\ pc' = "str"
    /\ this_note' = scale.starts_on
    /\ disp_text' = <<scale.clef.symbol>>
    /\ str_i' = 1
    /\ shown' = <<>>
    /\ err' = "none"
    /\ UNCHANGED <<world_vars, walk_vars, settings, menu_vars, object_vars, scale_vars, call_vars>>

\* the loop run over self.pattern alone: the closing note is never shown
StrStepsPatternOnly(pattern) == pattern

\* the list the loop runs over: self.pattern + [2]
StrSteps(pattern) == pattern \o <<2>>

\* for up_by in self.pattern + [2]: one iteration
StrStep ==
    /\ pc = "str"
    /\ str_i <= Len(StrSteps(scale.pattern))
    /\ LET steps == StrSteps(scale.pattern)
           error == up_by_error(this_note, steps[str_i], Len(scale.pattern))
       IN  /\ disp_text' = disp_text
                  \o string_form(this_note, scale.clef, KeySignatureDefault, FALSE)
           /\ shown' = Append(shown, this_note)
           /\ IF error = "none"
              THEN /\ this_note' = up_by(this_note, steps[str_i], Len(scale.pattern))
                   /\ str_i' = str_i + 1
                   /\ UNCHANGED <<pc, err>>
              ELSE /\ err' = error
                   /\ pc' = "idle"
                   /\ UNCHANGED <<this_note, str_i>>
    /\ UNCHANGED <<world_vars, walk_vars, settings, menu_vars, object_vars, scale_vars, call_vars>>

\* return disp_text; make_text stores it in self.display.text
StrReturn ==
    /\ pc = "str"
    /\ str_i = Len(StrSteps(scale.pattern)) + 1
    /\ display_text' = disp_text
    /\ pc' = "idle"
    /\ UNCHANGED <<world_vars, walk_vars, settings, menu_vars, object_vars, scale, gen, this_note, disp_text, str_i,
                   shown, call_vars, err>>

-----------------------------------------------------------------------------
(* Inputs *)

Accidentals == (0 - MaxAccidentals)..MaxAccidentals

\* the strings of every note: a letter, accidentals, one octave digit
NoteStrings ==
    { <<LetterChars[l]>> \o Repeat(SHARP, a) \o Repeat(FLAT, -a) \o <<DigitChars[o]>> :
        l \in 1..7, a \in Accidentals, o \in 1..10 }

Notes == {Note(s) : s \in NoteStrings}

ClefNames == DOMAIN CLEFS

CatalogScaleTypes == {SCALE_TYPE_INFO[key] : key \in DOMAIN SCALE_TYPE_INFO}

WalkIdle ==
    /\ start_note = NoNote
    /\ walk_note = NoNote
    /\ steps_done = 0
    /\ steps_sum = 0
    /\ walk_length = 0

ScaleIdle ==
    /\ scale = NoScale
    /\ gen = NoGen
    /\ display_text = <<>>

StrIdle ==
    /\ pc = "idle"
    /\ this_note = NoNote
    /\ disp_text = <<>>
    /\ str_i = 0
    /\ shown = <<>>

NoCall == [op |-> "none"]

NotReturned == [returned |-> FALSE, value |-> <<>>]

Returned(value) == [returned |-> TRUE, value |-> value]

\* World(): no boulders, score 0, nothing selected (main.py 36-40)
WorldIdle ==
    /\ boulders = <<>>
    /\ score = 0
    /\ selected = 0
    /\ spawned = 0

CallIdle ==
    /\ call = NoCall
    /\ ret = NotReturned

\* no SettingsScreen has been set up
NoMenu == [open |-> FALSE, active_sub_menu |-> "", active_sub_menu_left |-> TRUE,
           sub_menu |-> <<>>]

NoFile == [scale_types |-> <<"FileNotFoundError">>]

MenuIdle ==
    /\ menu = NoMenu
    /\ default_config = DEFAULT_CONFIG
    /\ config_file = NoFile
    /\ aliased = {}
    /\ presses = 0

ObjectsIdle ==
    /\ objects = NoObjects
    /\ traversals = <<>>

-----------------------------------------------------------------------------
(* Walking up from a note: up_by applied step after step *)

ScaleLengths == {5, 6, 7, 8, 12, 9}

HalfStepInputs == 0..4

InitWalk ==
    /\ start_note \in Notes
    /\ walk_note = start_note
    /\ steps_done = 0
    /\ steps_sum = 0
    /\ walk_length \in ScaleLengths
    /\ settings = validate(DEFAULT_CONFIG)
    /\ ScaleIdle
    /\ StrIdle
    /\ CallIdle
    /\ err = "none"
    /\ WorldIdle
    /\ MenuIdle
    /\ ObjectsIdle

UpByStep(half_steps) ==
    /\ err = "none"
    /\ steps_done < walk_length
    /\ steps_done < MaxWalk
    /\ IF up_by_error(walk_note, half_steps, walk_length) = "none"
       THEN /\ walk_note' = up_by(walk_note, half_steps, walk_length)
            /\ steps_done' = steps_done + 1
            /\ steps_sum' = steps_sum + half_steps
            /\ err' = "none"
       ELSE /\ err' = up_by_error(walk_note, half_steps, walk_length)
            /\ UNCHANGED <<walk_note, steps_done, steps_sum>>
    /\ UNCHANGED <<world_vars, start_note, walk_length, settings, menu_vars, object_vars, scale_vars, str_vars, call_vars>>

NextWalk == \E h \in HalfStepInputs : UpByStep(h)

SpecWalk == InitWalk /\ [][NextWalk]_vars

-----------------------------------------------------------------------------
(* A Scale built from given arguments and displayed *)

Init ==
    /\ WalkIdle
    /\ settings = validate(DEFAULT_CONFIG)
    /\ ScaleIdle
    /\ StrIdle
    /\ CallIdle
    /\ err = "none"
    /\ WorldIdle
    /\ MenuIdle
    /\ ObjectsIdle

\* one Scale is built in a run: Scale objects share nothing
NewScale ==
    /\ gen = NoGen
    /\ \E scale_type \in CatalogScaleTypes, starts_on \in NoteStrings, clef \in ClefNames :
          ScaleInit(scale_type, starts_on, clef)

Next == NewScale \/ StrBegin \/ StrStep \/ StrReturn

Spec == Init /\ [][Next]_vars

-----------------------------------------------------------------------------
(* Single calls of the methods of Note *)

\* the second note of a comparison: the naturals
OtherNotes == {n \in Notes : n.sharp_flat = <<>>}

KeySignatureCounts == (0 - LETTERS_PER_OCTAVE)..LETTERS_PER_OCTAVE

FontOffsetCalls ==
    { [op |-> "font_offset_number", note |-> n, other |-> m, clef |-> c] :
        n \in Notes, m \in OtherNotes, c \in ClefNames }

StringFormCalls ==
    { [op |-> "string_form", note |-> n, clef |-> c, key_signature |-> k,
       octave |-> FALSE] :
        n \in Notes, c \in ClefNames, k \in KeySignatureCounts }
    \cup
    { [op |-> "string_form", note |-> n, clef |-> "None", key_signature |-> 0,
       octave |-> o] :
        n \in Notes, o \in BOOLEAN }

ContainsCalls ==
    { [op |-> "contains", note |-> n, key_signature |-> k] :
        n \in Notes, k \in KeySignatureCounts }

\* note strings as they should be, and strings with a bad letter, a bad
\* octave, other characters between the two, or too few characters
NoteCallStrings ==
    { <<l>> \o middle \o o :
        l \in {"C", "G", "H", "b", "4"},
        middle \in {<<>>, <<"#">>, <<"b", "b">>, <<"#", "b">>, <<"W">>, <<"1">>,
                    <<"#", "W">>, <<"-">>},
        o \in {<<"4">>, <<"0">>, <<"b">>, <<"W">>, <<"#">>, <<>>} }
    \cup {<<>>}

NoteCalls == { [op |-> "Note", note |-> s] : s \in NoteCallStrings }

InitNote ==
    /\ WalkIdle
    /\ settings = validate(DEFAULT_CONFIG)
    /\ ScaleIdle
    /\ StrIdle
    /\ call \in FontOffsetCalls \cup StringFormCalls \cup ContainsCalls \cup NoteCalls
    /\ ret = NotReturned
    /\ err = "none"
    /\ WorldIdle
    /\ MenuIdle
    /\ ObjectsIdle

\* note.font_offset_number(clef) and other.font_offset_number(clef)
CallFontOffsetNumber ==
    /\ call.op = "font_offset_number"
    /\ ~ret.returned
    /\ ret' = Returned(<<font_offset_number(call.note, CLEFS[call.clef]),
                         font_offset_number(call.other, CLEFS[call.clef])>>)
    /\ UNCHANGED <<world_vars, walk_vars, settings, menu_vars, object_vars, scale_vars, str_vars, call, err>>

\* note.string_form(clef, key_signature, octave)
CallStringForm ==
    /\ call.op = "string_form"
    /\ ~ret.returned
    /\ ret' = Returned(string_form(call.note,
                          IF call.clef = "None" THEN NoClef ELSE CLEFS[call.clef],
                          KeySignature(call.key_signature), call.octave))
    /\ UNCHANGED <<world_vars, walk_vars, settings, menu_vars, object_vars, scale_vars, str_vars, call, err>>

\* note in key_signature
CallContains ==
    /\ call.op = "contains"
    /\ ~ret.returned
    /\ ret' = Returned(KeySignatureContains(KeySignature(call.key_signature), call.note))
    /\ UNCHANGED <<world_vars, walk_vars, settings, menu_vars, object_vars, scale_vars, str_vars, call, err>>

\* Note(note): the new Note, or the exception it raises
CallNote ==
    /\ call.op = "Note"
    /\ ~ret.returned
    /\ err = "none"
    /\ IF NoteError(call.note) = "none"
       THEN ret' = Returned(Note(call.note)) /\ UNCHANGED err
       ELSE err' = NoteError(call.note) /\ UNCHANGED ret
    /\ UNCHANGED <<world_vars, walk_vars, settings, menu_vars, object_vars, scale_vars, str_vars, call>>

NextNote == CallFontOffsetNumber \/ CallStringForm \/ CallContains \/ CallNote

SpecNote == InitNote /\ [][NextNote]_vars

-----------------------------------------------------------------------------
(* Constrained generation under the settings *)

TypeNameUniverse ==
    <<"Major", "Natural Minor", "Harmonic Minor", "Melodic Minor", "Ionian", "Dorian",
      "Phrygian", "Lydian", "Mixolydian", "Aeolian", "Lochrian", "Whole Tone">>

ClefNameUniverse ==
    <<"Bass", "Treble", "Baritone", "Tenor", "Alto", "Mezzo-Soprano", "Soprano",
      "Percussion">>

\* the elements of universe at the places of the set indices, in their order
ListOf(universe, indices) ==
    [i \in 1..Cardinality(indices) |->
        universe[CHOOSE x \in indices : Cardinality({y \in indices : y < x}) = i - 1]]

\* the lists of at most MaxEnabled names
EnabledLists(universe) ==
    { ListOf(universe, indices) :
        indices \in {s \in SUBSET (1..Len(universe)) : Cardinality(s) <= MaxEnabled} }

\* no ledger positions, half of them, all of them
LedgerLimits == {0, LEDGER_LINES \div 2, LEDGER_LINES}

GenSettings ==
    { [DEFAULT_CONFIG EXCEPT !.scale_types = t, !.clefs = c,
                             !.max_low_ledger_positions = low,
                             !.max_high_ledger_positions = high] :
        t \in EnabledLists(TypeNameUniverse), c \in EnabledLists(ClefNameUniverse),
        low \in LedgerLimits, high \in LedgerLimits }

InitGen ==
    /\ WalkIdle
    /\ settings \in GenSettings
    /\ ScaleIdle
    /\ StrIdle
    /\ CallIdle
    /\ err = "none"
    /\ WorldIdle
    /\ MenuIdle
    /\ ObjectsIdle

\* Scale(world)
Generate ==
    /\ gen = NoGen
    /\ ScaleInit(NoScaleInfo, NoStart, "None")

\* Scale(world, scale_type) for a scale type of main.py
GenerateOfType ==
    /\ gen = NoGen
    /\ \E key \in DOMAIN main_SCALE_TYPE_INFO :
          ScaleInit(main_SCALE_TYPE_INFO[key], NoStart, "None")

NextGen == Generate \/ GenerateOfType

SpecGen == InitGen /\ [][NextGen]_vars

-----------------------------------------------------------------------------
(* Scale(world, scale_type, starts_on, clef) for scale types written by the
   caller, whose patterns may not fill an octave, with and without a start
   and a clef *)

\* scale types as a caller can write them: patterns that are too short, too
\* long, empty or in lower case, one of them with starts no clef can show,
\* and the Major and Harmonic Minor types of the catalog
CallerScaleInfos ==
    {ScaleInfo("Short", <<"W", "W", "H", "W", "W", "W">>, <<<<"C">>, <<"F">>>>),
     ScaleInfo("Long", <<"W", "W", "H", "W", "W", "W", "H", "W">>, <<<<"C">>, <<"F">>>>),
     ScaleInfo("Empty", <<>>, <<<<"C">>, <<"F">>>>),
     ScaleInfo("Lower", <<"w", "w", "h", "w", "w", "w", "h">>, <<<<"C">>, <<"F">>>>),
     ScaleInfo("Short", <<"W", "W", "H", "W", "W", "W">>, <<<<"C", "4">>, <<"F", "4">>>>),
     SCALE_TYPE_INFO["q"],
     SCALE_TYPE_INFO["e"]}

CallerStarts == {NoStart, <<"C", "4">>, <<"F", "#", "3">>, <<"H", "4">>, <<"C", "b">>}

CallerClefs == {"None", "Treble", "Bass", "Percussion"}

CtorSettings ==
    { [DEFAULT_CONFIG EXCEPT !.clefs = c] :
        c \in {<<"Treble", "Bass">>, <<"Alto">>, <<"Percussion">>} }

InitCtor ==
    /\ WalkIdle
    /\ settings \in CtorSettings
    /\ ScaleIdle
    /\ StrIdle
    /\ CallIdle
    /\ err = "none"
    /\ WorldIdle
    /\ MenuIdle
    /\ ObjectsIdle

\* Scale(world, scale_type, starts_on, clef), starts_on and clef given or not
ScaleOfInfo ==
    /\ gen = NoGen
    /\ \E scale_type \in CallerScaleInfos, starts_on \in CallerStarts,
          clef \in CallerClefs :
          ScaleInit(scale_type, starts_on, clef)

NextCtor == ScaleOfInfo

SpecCtor == InitCtor /\ [][NextCtor]_vars

-----------------------------------------------------------------------------
(* One call of note.up_by(half_steps, scale_length), for step sizes in and
   out of 1..3 and scale lengths the match statement names or not *)

UpByHalfSteps == -1..5

UpByScaleLengths == {0, 1, 5, 6, 7, 8, 9, 12}

UpByCalls ==
    { [op |-> "up_by", note |-> n, half_steps |-> h, scale_length |-> l] :
        n \in Notes, h \in UpByHalfSteps, l \in UpByScaleLengths }

InitUpBy ==
    /\ WalkIdle
    /\ settings = validate(DEFAULT_CONFIG)
    /\ ScaleIdle
    /\ StrIdle
    /\ call \in UpByCalls
    /\ ret = NotReturned
    /\ err = "none"
    /\ WorldIdle
    /\ MenuIdle
    /\ ObjectsIdle

\* note.up_by(half_steps, scale_length): the new Note, or the exception
CallUpBy ==
    /\ call.op = "up_by"
    /\ ~ret.returned
    /\ err = "none"
    /\ IF up_by_error(call.note, call.half_steps, call.scale_length) = "none"
       THEN /\ ret' = Returned(up_by(call.note, call.half_steps, call.scale_length))
            /\ UNCHANGED err
       ELSE /\ err' = up_by_error(call.note, call.half_steps, call.scale_length)
            /\ UNCHANGED ret
    /\ UNCHANGED <<world_vars, walk_vars, settings, menu_vars, object_vars, scale_vars, str_vars, call>>

NextUpBy == CallUpBy

SpecUpBy == InitUpBy /\ [][NextUpBy]_vars

-----------------------------------------------------------------------------
(* The playable notes of a clef: clef.all_notes(world) for every clef and
   every pair of ledger limits the settings allow *)

ClefSettings ==
    { [DEFAULT_CONFIG EXCEPT !.max_low_ledger_positions = low,
                             !.max_high_ledger_positions = high] :
        low \in 0..LEDGER_LINES, high \in 0..LEDGER_LINES }

InitClef ==
    /\ WalkIdle
    /\ settings \in ClefSettings
    /\ ScaleIdle
    /\ StrIdle
    /\ call \in {[op |-> "all_notes", clef |-> clef] : clef \in DOMAIN CLEFS}
    /\ ret = NotReturned
    /\ err = "none"
    /\ WorldIdle
    /\ MenuIdle
    /\ ObjectsIdle

CallAllNotes ==
    /\ call.op = "all_notes"
    /\ ~ret.returned
    /\ ret' = Returned(all_notes(CLEFS[call.clef], settings))
    /\ UNCHANGED <<world_vars, walk_vars, settings, menu_vars, object_vars, scale_vars, str_vars, call, err>>

NextClef == CallAllNotes

SpecClef == InitClef /\ [][NextClef]_vars

-----------------------------------------------------------------------------
(* Verifying a guess: the comparison void_keyPressed makes between the
   pattern of a boulder's scale and the pattern string of the guessed type *)

\* main.py 229: [int_from_pattern(c) for c in guessed_pattern_str]
guessed_pattern(guessed_pattern_str) ==
    [i \in 1..Len(guessed_pattern_str) |-> int_from_pattern(guessed_pattern_str[i])]

\* a comparison that stops at the end of the shorter list
sb_pattern_matches_prefix(sb_pattern, guessed_pattern_str) ==
    \A i \in 1..Min(Len(sb_pattern), Len(guessed_pattern_str)) :
        sb_pattern[i] = int_from_pattern(guessed_pattern_str[i])

\* main.py 230: sb_pattern == guessed_pattern
sb_pattern_matches(sb_pattern, guessed_pattern_str) ==
    sb_pattern = guessed_pattern(guessed_pattern_str)

\* the pattern strings of main.py's scale types, and strings no scale type
\* has: too short, too long, empty, lower case, digits, a wrong last step
GuessStrings ==
    {main_SCALE_TYPE_INFO[key].pattern : key \in DOMAIN main_SCALE_TYPE_INFO}
    \cup {SCALE_TYPE_INFO[key].pattern : key \in DOMAIN SCALE_TYPE_INFO}
    \cup {<<"W", "W", "H", "W", "W", "W">>,
          <<"W", "W", "H", "W", "W", "W", "H", "W">>,
          <<>>,
          <<"w", "w", "h", "w", "w", "w", "h">>,
          <<"2", "2", "1", "2", "2", "2", "1">>,
          <<"W", "W", "H", "W", "W", "W", "b">>,
          <<"W", "H", "W", "W", "H", "3", "#">>}

VerifyClefs == {"Treble", "Bass"}

InitVerify ==
    /\ WalkIdle
    /\ settings = validate(DEFAULT_CONFIG)
    /\ ScaleIdle
    /\ StrIdle
    /\ CallIdle
    /\ err = "none"
    /\ WorldIdle
    /\ MenuIdle
    /\ ObjectsIdle

\* Scale(world, scale_type, starts_on, clef) for a catalog type and one of its starts
ScaleOfType ==
    /\ gen = NoGen
    /\ \E key \in DOMAIN SCALE_TYPE_INFO, clef \in VerifyClefs :
          \E starts_on \in SCALE_TYPE_INFO[key].possible_starts :
              ScaleInit(SCALE_TYPE_INFO[key], starts_on, clef)

\* lines 227-230 of void_keyPressed, the scale standing for selected_boulder.scale
Guess ==
    /\ scale # NoScale
    /\ call.op = "Scale"
    /\ \E guessed_pattern_str \in GuessStrings :
          /\ call' = [op |-> "guess", guessed_pattern_str |-> guessed_pattern_str]
          /\ ret' = Returned(sb_pattern_matches(scale.pattern, guessed_pattern_str))
    /\ UNCHANGED <<world_vars, walk_vars, settings, menu_vars, object_vars, scale_vars, str_vars, err>>

NextVerify == ScaleOfType \/ Guess

SpecVerify == InitVerify /\ [][NextVerify]_vars

-----------------------------------------------------------------------------
(* The game: the World, its boulders, void_keyPressed and void_draw.
   Scores and values are floats in the program; here they are counted in
   units of 1/Unit point, which halving MaxHalvings times keeps whole.
   The Boulder class is not part of the sources at hand: a boulder is taken
   to be what main.py reads of it, a place (x, y, alpha), a value and a
   scale, kept in world.boulders under its x; Boulder(world) adds one above
   the window with a Scale(world), move_down lowers it by one step and
   remove deletes it from world.boulders.  Of a boulder's scale the state
   keeps the pattern, which is all the game reads of it. *)

Unit == 2 ^ MaxHalvings

FAILED_BOULDER_PENALTY == -10

\* alpha of the designer objects, in percent
ALPHA_DIMMED == 50

ALPHA_FULL == 100

GameSettings ==
    [DEFAULT_CONFIG EXCEPT !.scale_types = <<"Major", "Dorian">>,
                           !.clefs = <<"Treble">>,
                           !.max_low_ledger_positions = 0,
                           !.max_high_ledger_positions = 0]

\* the places of world.boulders that hold the boulder of key x
PlacesOf(x) == {i \in 1..Len(boulders) : boulders[i].x = x}

Without(seq, i) == SubSeq(seq, 1, i - 1) \o SubSeq(seq, i + 1, Len(seq))

\* the members of a set of numbers in increasing order
Sorted(S) ==
    [i \in 1..Cardinality(S) |->
        CHOOSE x \in S : Cardinality({y \in S : y < x}) = i - 1]

Reversed(seq) == [i \in 1..Len(seq) |-> seq[Len(seq) + 1 - i]]

\* the columns boulders fall in, one for each boulder of a run
Columns == 1..MaxSpawns

\* Boulder(world): a new boulder in a free column, above the window, worth
\* one point
NewBoulder(x, boulder_scale) ==
    [x |-> x, y |-> 0, alpha |-> ALPHA_FULL, value |-> Unit,
     scale |-> [pattern |-> boulder_scale.pattern],
     \* history: the value it was created with and the wrong guesses since
     original |-> Unit, misses |-> 0]

sorted_onscreen_boulder_keys ==
    Sorted({boulders[i].x : i \in {j \in 1..Len(boulders) : boulders[j].y > 0}})

\* the first boulder, in the order of the dict, that no other one is below
key_of_max_y_boulder ==
    LET i == CHOOSE i \in 1..Len(boulders) :
                 /\ \A j \in 1..Len(boulders) : boulders[j].y <= boulders[i].y
                 /\ \A j \in 1..(i - 1) : boulders[j].y < boulders[i].y
    IN  boulders[i].x

\* the loop of select taking a key that equals the selection as well
RECURSIVE SelectLoopNotStrict(_, _, _, _)
SelectLoopNotStrict(right, good_sorted_keys, i, new_selected) ==
    IF i > Len(good_sorted_keys) THEN new_selected
    ELSE LET key == good_sorted_keys[i]
         IN  SelectLoopNotStrict(right, good_sorted_keys, i + 1,
                 IF pm_bool(right) * key >= selected * pm_bool(right)
                 THEN key ELSE new_selected)

\* the loop of select over good_sorted_keys
RECURSIVE SelectLoop(_, _, _, _)
SelectLoop(right, good_sorted_keys, i, new_selected) ==
    IF i > Len(good_sorted_keys) THEN new_selected
    ELSE LET key == good_sorted_keys[i]
         IN  SelectLoop(right, good_sorted_keys, i + 1,
                 IF pm_bool(right) * key > selected * pm_bool(right)
                 THEN key ELSE new_selected)

\* World.select(right)
select(right) ==
    IF boulders = <<>>
    THEN selected' = 0 /\ UNCHANGED boulders
    ELSE IF sorted_onscreen_boulder_keys = <<>>
    THEN selected' = key_of_max_y_boulder /\ UNCHANGED boulders
    ELSE LET good_sorted_keys == IF right THEN Reversed(sorted_onscreen_boulder_keys)
                                 ELSE sorted_onscreen_boulder_keys
             new_selected == SelectLoop(right, good_sorted_keys, 1,
                                        good_sorted_keys[Len(good_sorted_keys)])
         IN  /\ selected' = new_selected
             /\ boulders' =
                    [i \in 1..Len(boulders) |->
                        IF boulders[i].x = new_selected
                        THEN [boulders[i] EXCEPT !.alpha = ALPHA_FULL]
                        ELSE IF boulders[i].y > 0
                        THEN [boulders[i] EXCEPT !.alpha = ALPHA_DIMMED]
                        ELSE boulders[i]]

\* a wrong guess keeps the whole value
value_kept(value) == value

\* main.py 234: selected_boulder.value *= 0.50
value_halved(value) == value \div 2

InitGame ==
    /\ WalkIdle
    /\ settings = GameSettings
    /\ ScaleIdle
    /\ StrIdle
    /\ CallIdle
    /\ err = "none"
    /\ WorldIdle
    /\ MenuIdle
    /\ ObjectsIdle

GameUnchanged == UNCHANGED <<walk_vars, settings, menu_vars, object_vars, scale_vars, this_note, disp_text,
                             str_i, shown, ret>>

\* case 'space': Boulder(world)
KeySpace ==
    /\ pc = "idle"
    /\ spawned < MaxSpawns
    /\ \E x \in Columns \ {boulders[i].x : i \in 1..Len(boulders)},
          result \in ScaleInitResults(settings, NoScaleInfo, NoStart, "None") :
          /\ result.err = "none"
          /\ boulders' = Append(boulders, NewBoulder(x, result.scale))
    /\ spawned' = spawned + 1
    /\ UNCHANGED <<score, selected, pc, err, call>>
    /\ GameUnchanged

\* case 'left': world.select_previous()
KeyLeft ==
    /\ pc = "idle"
    /\ select(FALSE)
    /\ UNCHANGED <<score, spawned, pc, err, call>>
    /\ GameUnchanged

\* case 'right': world.select_next()
KeyRight ==
    /\ pc = "idle"
    /\ select(TRUE)
    /\ UNCHANGED <<score, spawned, pc, err, call>>
    /\ GameUnchanged

\* case keys.value: the key of a scale type, a guess at the selected boulder
KeyScaleType ==
    /\ pc = "idle"
    /\ \E key \in DOMAIN main_SCALE_TYPE_INFO :
          IF selected = 0
          THEN UNCHANGED <<boulders, score, pc, err, call>>
          ELSE IF PlacesOf(selected) = {}
          THEN \* world.boulders[world.selected] raises
               /\ err' = "KeyError"
               /\ pc' = "exit"
               /\ UNCHANGED <<boulders, score, call>>
          ELSE LET i                   == CHOOSE i \in PlacesOf(selected) : TRUE
                   selected_boulder    == boulders[i]
                   sb_pattern          == selected_boulder.scale.pattern
                   guessed_pattern_str == main_SCALE_TYPE_INFO[key].pattern
                   matched == sb_pattern_matches(sb_pattern, guessed_pattern_str)
               IN  /\ call' = [op |-> "guess", key |-> key,
                                selected_boulder |->
                                    [x        |-> selected_boulder.x,
                                     value    |-> selected_boulder.value,
                                     original |-> selected_boulder.original,
                                     misses   |-> selected_boulder.misses],
                                matched |-> matched]
                   /\ IF matched
                      THEN /\ score' = score + selected_boulder.value
                           /\ boulders' = Without(boulders, i)
                      ELSE /\ selected_boulder.misses < MaxHalvings
                           /\ boulders' =
                                  [boulders EXCEPT ![i].value = value_halved(@),
                                                   ![i].misses = @ + 1]
                           /\ UNCHANGED score
                   /\ UNCHANGED <<pc, err>>
    /\ UNCHANGED <<selected, spawned>>
    /\ GameUnchanged

\* case 'escape': exit(world.score)
KeyEscape ==
    /\ pc = "idle"
    /\ pc' = "exit"
    /\ UNCHANGED <<world_vars, err, call>>
    /\ GameUnchanged

\* case _: print(key)
KeyOther ==
    /\ pc = "idle"
    /\ UNCHANGED <<world_vars, pc, err, call>>
    /\ GameUnchanged

\* void_draw: every boulder a step down, the fallen ones removed at a penalty
Draw ==
    /\ pc = "idle"
    /\ LET moved  == [i \in 1..Len(boulders) |->
                         [boulders[i] EXCEPT !.y = @ + 1]]
           fallen == {i \in 1..Len(moved) : moved[i].y > WindowHeight}
       IN  /\ boulders' = SelectSeq(moved, LAMBDA b : b.y <= WindowHeight)
           /\ score' = score + Cardinality(fallen) * FAILED_BOULDER_PENALTY * Unit
    /\ UNCHANGED <<selected, spawned, pc, err, call>>
    /\ GameUnchanged

NextGame ==
    \/ KeySpace
    \/ KeyLeft
    \/ KeyRight
    \/ KeyScaleType
    \/ KeyEscape
    \/ KeyOther
    \/ Draw

SpecGame == InitGame /\ [][NextGame]_vars

-----------------------------------------------------------------------------
(* The musical alphabet, stated apart from the code *)

NextLetterOf(letter) ==
    CASE letter = "A" -> "B" [] letter = "B" -> "C" [] letter = "C" -> "D"
      [] letter = "D" -> "E" [] letter = "E" -> "F" [] letter = "F" -> "G"
      [] letter = "G" -> "A"

\* half steps from a letter to the next one
NaturalGap(letter) == IF letter \in {"B", "E"} THEN 1 ELSE 2

\* sharps counted +1, flats -1
AccidentalCount(n) == CountAccidentals(n.sharp_flat)

NaturalNote(letter, octave) == [letter |-> letter, sharp_flat |-> <<>>, octave |-> octave]

-----------------------------------------------------------------------------
(* Claims *)

\* C1: for every note (octave 0-9) and step h in {1,2,3}, up_by(h, 7) returns
\* the next letter of the cyclic alphabet, the accidental count + h - gap, and
\* the octave + 1 exactly when the letter is B.
C1_UpBySeven ==
    [][(walk_length = 7 /\ steps_done' = steps_done + 1) =>
          LET h == steps_sum' - steps_sum
          IN  /\ walk_note'.letter = NextLetterOf(walk_note.letter)
              /\ AccidentalCount(walk_note') =
                     AccidentalCount(walk_note) + h - NaturalGap(walk_note.letter)
              /\ walk_note'.octave =
                     walk_note.octave + (IF walk_note.letter = "B" THEN 1 ELSE 0)]_vars

\* C2: a walk of seven steps over {1,2,3} that sum to 12 ends on the letter and
\* accidental count it started on, exactly one octave higher.
C2_WalkClosesOctave ==
    (walk_length = 7 /\ steps_done = 7 /\ steps_sum = 12) =>
        /\ walk_note.letter = start_note.letter
        /\ AccidentalCount(walk_note) = AccidentalCount(start_note)
        /\ walk_note.octave = start_note.octave + 1

\* the notes of a finished traversal of the Scale
Traversed == pc = "idle" /\ scale # NoScale /\ display_text # <<>>

BuiltFrom(name, starts_on, clef) ==
    /\ gen.scale_type.name = name
    /\ scale.starts_on = starts_on
    /\ scale.clef.name = clef

\* C3: the notes a Scale shows are len(pattern) + 1 notes, the starting note
\* first and each next one up_by(pattern[i], len(pattern)) of the one before;
\* Major from C4 on the Treble clef is C4 D4 E4 F4 G4 A4 B4 C5 and Natural
\* Minor from A3 is A3 B3 C4 D4 E4 F4 G4 A4.
C3_NoteSequence ==
    Traversed =>
        /\ Len(shown) = Len(scale.pattern) + 1
        /\ shown[1] = scale.starts_on
        /\ \A i \in 1..Len(scale.pattern) :
              shown[i + 1] = up_by(shown[i], scale.pattern[i], Len(scale.pattern))
        /\ BuiltFrom("Major", NaturalNote("C", 4), "Treble") =>
              shown = <<NaturalNote("C", 4), NaturalNote("D", 4), NaturalNote("E", 4),
                        NaturalNote("F", 4), NaturalNote("G", 4), NaturalNote("A", 4),
                        NaturalNote("B", 4), NaturalNote("C", 5)>>
        /\ (gen.scale_type.name = "Natural Minor" /\ scale.starts_on = NaturalNote("A", 3)) =>
              shown = <<NaturalNote("A", 3), NaturalNote("B", 3), NaturalNote("C", 4),
                        NaturalNote("D", 4), NaturalNote("E", 4), NaturalNote("F", 4),
                        NaturalNote("G", 4), NaturalNote("A", 4)>>

C3_Witness ==
    /\ Traversed
    /\ BuiltFrom("Major", NaturalNote("C", 4), "Treble")
    /\ Len(shown) = 8
    /\ shown[8] = NaturalNote("C", 5)

\* staff height of a letter within its octave: octaves begin at C
PositionFromC(letter) ==
    CASE letter = "C" -> 0 [] letter = "D" -> 1 [] letter = "E" -> 2
      [] letter = "F" -> 3 [] letter = "G" -> 4 [] letter = "A" -> 5
      [] letter = "B" -> 6

\* place of a letter in the alphabet
AlphabetIndex(letter) ==
    CASE letter = "A" -> 0 [] letter = "B" -> 1 [] letter = "C" -> 2
      [] letter = "D" -> 3 [] letter = "E" -> 4 [] letter = "F" -> 5
      [] letter = "G" -> 6

StaffHeight(n) == 7 * n.octave + PositionFromC(n.letter)

BelowC(letter) == IF letter \in {"A", "B"} THEN 1 ELSE 0

FontOffsetReturned == call.op = "font_offset_number" /\ ret.returned

\* C9: font_offset_number is 7 * octaveDelta + letterDelta + 1, the octave delta
\* corrected for octaves changing at C; it is 1 for the clef's lowest note,
\* ignores accidentals, is strictly larger for the higher of two notes ordered by
\* (octave, letter position from C), and one letter up raises it by exactly 1.
C9_FontOffsetMonotonic ==
    FontOffsetReturned =>
        LET n      == call.note
            m      == call.other
            lowest == CLEFS[call.clef].lowest_note
            octaveDelta == (n.octave - lowest.octave) + BelowC(n.letter) - BelowC(lowest.letter)
            letterDelta == AlphabetIndex(n.letter) - AlphabetIndex(lowest.letter)
        IN  /\ ret.value[1] = 7 * octaveDelta + letterDelta + 1
            /\ (n.letter = lowest.letter /\ n.octave = lowest.octave) => ret.value[1] = 1
            /\ (n.letter = m.letter /\ n.octave = m.octave) => ret.value[1] = ret.value[2]
            /\ StaffHeight(m) > StaffHeight(n) => ret.value[2] > ret.value[1]
            /\ StaffHeight(m) = StaffHeight(n) + 1 => ret.value[2] = ret.value[1] + 1

\* a sharp note on the clef's lowest line, compared with the natural a letter above
C9_Witness ==
    /\ FontOffsetReturned
    /\ call.note.letter = "B" /\ call.note.octave = 2 /\ call.note.sharp_flat = <<SHARP>>
    /\ call.other = NaturalNote("C", 3)
    /\ call.clef = "Alto"
    /\ ret.value = <<1, 2>>

SharpsOrder == <<"F", "C", "G", "D", "A", "E", "B">>

FlatsOrder == <<"B", "E", "A", "D", "G", "C", "F">>

\* the letter is one the key signature of that count alters
Covered(count, letter) ==
    \/ count > 0 /\ \E i \in 1..count : SharpsOrder[i] = letter
    \/ count < 0 /\ \E i \in 1..(0 - count) : FlatsOrder[i] = letter

Sign(x) == IF x > 0 THEN 1 ELSE IF x < 0 THEN -1 ELSE 0

Abs(x) == IF x < 0 THEN 0 - x ELSE x

\* one sharp or flat glyph at the note's staff position for each accidental
SharpFlatMarkers(n, offset) ==
    [i \in 1..Abs(AccidentalCount(n)) |->
        (IF AccidentalCount(n) > 0 THEN SHARPS_START ELSE FLATS_START) + offset]

StringFormOnStaffReturned ==
    call.op = "string_form" /\ call.clef # "None" /\ ret.returned

\* C10: before the note glyph string_form emits nothing when the letter is
\* covered by the key signature and the accidental has the signature's sign, the
\* note's accidental markers (a natural marker for no accidentals) when covered
\* and the signs differ, and the sharp/flat markers but never a natural marker
\* when the letter is not covered; with count 0 no natural is ever drawn.
C10_AccidentalMarkers ==
    StringFormOnStaffReturned =>
        LET n       == call.note
            count   == call.key_signature
            offset  == font_offset_number(n, CLEFS[call.clef])
            natural == NATURALS_START + offset
            before  == SubSeq(ret.value, 1, Len(ret.value) - 1)
        IN  /\ ret.value[Len(ret.value)] = NOTES_START + offset
            /\ (Covered(count, n.letter) /\ Sign(AccidentalCount(n)) = Sign(count))
                  => before = <<>>
            /\ (Covered(count, n.letter) /\ Sign(AccidentalCount(n)) # Sign(count))
                  => before = IF AccidentalCount(n) = 0 THEN <<natural>>
                              ELSE SharpFlatMarkers(n, offset)
            /\ ~Covered(count, n.letter)
                  => /\ before = SharpFlatMarkers(n, offset)
                     /\ natural \notin Elements(before)
            /\ count = 0 => (~Covered(count, n.letter) /\ natural \notin Elements(before))

\* F natural under a signature of one sharp: the natural is drawn
C10_Witness ==
    /\ StringFormOnStaffReturned
    /\ call.note = NaturalNote("F", 4)
    /\ call.key_signature = 1
    /\ call.clef = "Treble"
    /\ ret.value = <<NATURALS_START + 6, NOTES_START + 6>>

CatalogNames ==
    {"Major", "Natural Minor", "Harmonic Minor", "Melodic Minor", "Ionian", "Dorian",
     "Phrygian", "Lydian", "Mixolydian", "Aeolian", "Lochrian"}

\* Scale(world), no scale type, start or clef given, returned a Scale
Generated ==
    /\ call = [op |-> "Scale", scale_type |-> NoScaleInfo, starts_on |-> NoStart,
               clef |-> "None"]
    /\ err = "none"
    /\ scale # NoScale

\* C6: a Scale built by constrained generation has a scale type whose name is
\* enabled and in the catalog, a clef that is enabled and in CLEFS, and a
\* starting note in the type's possible_starts and in the clef's all_notes
\* under the current ledger limits.
C6_GeneratedWithinConstraints ==
    Generated =>
        /\ gen.scale_type.name \in Elements(settings.scale_types) \cap CatalogNames
        /\ \E key \in DOMAIN SCALE_TYPE_INFO : SCALE_TYPE_INFO[key] = gen.scale_type
        /\ gen.clef \in Elements(settings.clefs) \cap DOMAIN CLEFS
        /\ scale.clef = CLEFS[gen.clef]
        /\ gen.starts_on \in gen.scale_type.possible_starts
        /\ gen.starts_on \in all_notes(CLEFS[gen.clef], settings)
        /\ scale.starts_on = Note(gen.starts_on)
        /\ font_offset_number(scale.starts_on, scale.clef) \in
               (5 - settings.max_low_ledger_positions)
                   ..(6 + settings.max_high_ledger_positions)

\* a Lochrian scale drawn on the Alto clef with no ledger lines allowed
C6_Witness ==
    /\ Generated
    /\ gen.scale_type.name = "Lochrian"
    /\ gen.clef = "Alto"
    /\ settings.max_low_ledger_positions = 0
    /\ settings.max_high_ledger_positions = 0
    /\ gen.starts_on = <<"F", "#", "3">>

\* the constructor was left to draw the start and found nothing to draw from
NoStartToDraw ==
    /\ call.op = "Scale"
    /\ call.starts_on = NoStart
    /\ "possible_starts" \in DOMAIN gen
    /\ gen.possible_starts = {}

\* C7 as stated: an empty intersection of the type's starts and the clef's
\* notes ends generation with NoValidStartError and no Scale.
C7_NoValidStartError ==
    NoStartToDraw => (err = "NoValidStartError" /\ scale = NoScale)

\* C7, amended: an empty intersection ends generation with the IndexError of
\* random.choice on an empty list and no Scale; no start is made up.
C7_EmptyStartsRaiseIndexError ==
    NoStartToDraw =>
        /\ err = "IndexError"
        /\ scale = NoScale
        /\ "starts_on" \notin DOMAIN gen

C7_Witness ==
    /\ NoStartToDraw
    /\ gen.scale_type = main_SCALE_TYPE_INFO["q"]
    /\ gen.clef = "Treble"
    /\ err = "IndexError"
    /\ scale = NoScale

\* the letter and octave at a staff position of a clef, the lowest note at 1
LetterAt(clef, position) ==
    CHOOSE letter \in Elements(LetterChars) :
        PositionFromC(letter) = (StaffHeight(clef.lowest_note) + position - 1) % 7

OctaveAt(clef, position) == (StaffHeight(clef.lowest_note) + position - 1) \div 7

\* flat, natural and sharp at a staff position
SpellingsAt(clef, position) ==
    { <<LetterAt(clef, position)>> \o accidental
          \o <<DigitChars[OctaveAt(clef, position) + 1]>> :
        accidental \in {<<FLAT>>, <<>>, <<SHARP>>} }

LedgerPositions == (1..LEDGER_LINES) \cup ((TOTAL_NOTES - LEDGER_LINES + 1)..TOTAL_NOTES)

AllNotesReturned == call.op = "all_notes" /\ ret.returned

\* C8: all_notes is exactly the flat, natural and sharp spellings at the staff
\* positions 5 - low .. 6 + high counted from the clef's lowest note as 1, that
\* is 3 * (2 + low + high) distinct notes, the octave going up at each C; with
\* low = high = 0 none of them lies on a ledger position.
C8_AllNotesWindow ==
    AllNotesReturned =>
        LET clef == CLEFS[call.clef]
            low  == settings.max_low_ledger_positions
            high == settings.max_high_ledger_positions
        IN  /\ ret.value = UNION { SpellingsAt(clef, position) :
                                         position \in (5 - low)..(6 + high) }
            /\ Cardinality(ret.value) = 3 * (2 + low + high)
            /\ \A s \in ret.value :
                  /\ NoteError(s) = "none"
                  /\ font_offset_number(Note(s), clef) \in (5 - low)..(6 + high)
            /\ (low = 0 /\ high = 0) =>
                  \A s \in ret.value :
                      font_offset_number(Note(s), clef) \notin LedgerPositions

\* the Bass clef with one ledger position below and two above: C3 is the
\* first note of octave 3, B3 the highest
C8_Witness ==
    /\ AllNotesReturned
    /\ call.clef = "Bass"
    /\ settings.max_low_ledger_positions = 1
    /\ settings.max_high_ledger_positions = 2
    /\ <<"B", "b", "2">> \in ret.value
    /\ <<"C", "#", "3">> \in ret.value
    /\ <<"C", "3">> \in ret.value
    /\ <<"C", "4">> \notin ret.value
    /\ Cardinality(ret.value) = 15

\* the step a pattern character stands for, by the table of the game's rules
StepOf(c) ==
    IF c = "H" THEN 1 ELSE IF c = "W" THEN 2 ELSE IF c = "3" THEN 3 ELSE 0

GuessReturned == call.op = "guess" /\ ret.returned /\ "guessed_pattern_str" \in DOMAIN call

MajorPattern == <<"W", "W", "H", "W", "W", "W", "H">>

NaturalMinorPattern == <<"W", "H", "W", "W", "H", "W", "W">>

\* C4: a guess verifies exactly when its characters, mapped H->1, W->2, 3->3
\* and anything else->0, equal the scale's pattern in length and element by
\* element; the pattern string that produced the scale verifies; a Major scale
\* on any start accepts WWHWWWH and rejects WHWWHWW.
C4_VerifyIffPatternEqual ==
    GuessReturned =>
        LET guess == call.guessed_pattern_str
        IN  /\ ret.value <=>
                  /\ Len(guess) = Len(scale.pattern)
                  /\ \A i \in 1..Len(guess) : StepOf(guess[i]) = scale.pattern[i]
            /\ guess = gen.scale_type.pattern => ret.value
            /\ gen.scale_type.name = "Major" =>
                  /\ guess = MajorPattern => ret.value
                  /\ guess = NaturalMinorPattern => ~ret.value

\* a Major scale from a start other than C accepted, with the same guess
\* accepted for an Ionian scale
C4_Witness ==
    /\ GuessReturned
    /\ gen.scale_type.name \in {"Major", "Ionian"}
    /\ gen.starts_on = <<"F", "#", "3">>
    /\ call.guessed_pattern_str = MajorPattern
    /\ ret.value

\* a boulder is selected as a scale-type key goes down
BoulderSelected == pc = "idle" /\ selected # 0 /\ PlacesOf(selected) # {}

SelectedBoulder == boulders[CHOOSE i \in PlacesOf(selected) : TRUE]

\* the guess of a key is right for a boulder, by the table of the game's rules
RightGuess(key, boulder) ==
    LET guess == main_SCALE_TYPE_INFO[key].pattern
    IN  /\ Len(guess) = Len(boulder.scale.pattern)
        /\ \A i \in 1..Len(guess) : StepOf(guess[i]) = boulder.scale.pattern[i]

RECURSIVE TwoToThe(_)
TwoToThe(k) == IF k = 0 THEN 1 ELSE 2 * TwoToThe(k - 1)

\* C5: a scale-type key pressed with a boulder selected adds exactly the
\* boulder's current value to the score and removes the boulder when the
\* pattern matches, and otherwise halves the boulder's value, leaves the score
\* alone and keeps the boulder; so a right guess after k wrong ones gains the
\* original value divided by 2^k.
C5_GuessScoring ==
    [][(/\ BoulderSelected
        /\ call'.op = "guess"
        /\ "key" \in DOMAIN call'
        /\ call' # call)
       => LET boulder == SelectedBoulder
          IN  IF RightGuess(call'.key, boulder)
              THEN /\ score' = score + boulder.value
                   /\ Len(boulders') = Len(boulders) - 1
                   /\ \A i \in 1..Len(boulders') : boulders'[i].x # boulder.x
                   /\ boulder.value * TwoToThe(boulder.misses) = boulder.original
              ELSE /\ score' = score
                   /\ Len(boulders') = Len(boulders)
                   /\ \E i \in 1..Len(boulders') :
                         /\ boulders'[i].x = boulder.x
                         /\ 2 * boulders'[i].value = boulder.value
                         /\ boulders'[i].scale = boulder.scale
                         /\ boulders'[i].misses = boulder.misses + 1]_vars

\* a boulder guessed right after two wrong guesses: a quarter of its value
\* is all the score
C5_Witness ==
    /\ call.op = "guess"
    /\ "key" \in DOMAIN call
    /\ call.matched
    /\ call.selected_boulder.misses = 2
    /\ 4 * call.selected_boulder.value = call.selected_boulder.original
    /\ score = call.selected_boulder.value
    /\ PlacesOf(call.selected_boulder.x) = {}

ContainsReturned == call.op = "contains" /\ ret.returned

\* C11: for every count in -7..7 a note is in KeySignature(count) exactly when
\* its letter is among the first |count| letters of F,C,G,D,A,E,B for a
\* positive count or of B,E,A,D,G,C,F for a negative one, never for count 0,
\* whatever the note's accidental and octave.
C11_KeySignatureCoverage ==
    ContainsReturned =>
        /\ ret.value <=> Covered(call.key_signature, call.note.letter)
        /\ call.key_signature = 0 => ~ret.value

\* B double flat in octave 9 is in the signature of one flat, F sharp is not
C11_Witness ==
    /\ ContainsReturned
    /\ call.key_signature = -1
    /\ \/ call.note = [letter |-> "B", sharp_flat |-> <<FLAT, FLAT>>, octave |-> 9]
          /\ ret.value
       \/ call.note = [letter |-> "F", sharp_flat |-> <<SHARP>>, octave |-> 4]
          /\ ~ret.value

\* a note string as it should be: a letter A..G, sharps and flats, one digit
WellFormedNote(s) ==
    /\ Len(s) >= 2
    /\ s[1] \in {"A", "B", "C", "D", "E", "F", "G"}
    /\ \A i \in 2..(Len(s) - 1) : s[i] \in {SHARP, FLAT}
    /\ s[Len(s)] \in {"0", "1", "2", "3", "4", "5", "6", "7", "8", "9"}

NoteCallDone == call.op = "Note" /\ (ret.returned \/ err # "none")

\* C12: Note(s) on a malformed string raises InvalidNoteLetterError for a
\* first character outside A..G and InvalidOctaveError for a last character
\* that is no digit, and never returns a Note for a malformed string.
C12_MalformedNoteRaises ==
    (NoteCallDone /\ ~WellFormedNote(call.note)) =>
        /\ ~ret.returned
        /\ (call.note # <<>> /\ call.note[1] \notin {"A", "B", "C", "D", "E", "F", "G"})
              => err = "InvalidNoteLetterError"
        /\ (call.note # <<>> /\ call.note[1] \in {"A", "B", "C", "D", "E", "F", "G"}
              /\ ~IsDigit(call.note[Len(call.note)]))
              => err = "InvalidOctaveError"

UpByDone == call.op = "up_by" /\ (ret.returned \/ err # "none")

\* C13: up_by with a step size outside {1,2,3} fails with the bad-step-size
\* error for every scale length and every note, and returns no Note.
C13_BadStepSizeRaises ==
    (UpByDone /\ call.half_steps \notin {1, 2, 3}) =>
        /\ err = "BadSizedScaleJumpError"
        /\ ~ret.returned

\* a step of 0 on a scale of seven and a step of 4 on a chromatic scale
C13_Witness ==
    /\ UpByDone
    /\ err = "BadSizedScaleJumpError"
    /\ ~ret.returned
    /\ \/ call.half_steps = 0 /\ call.scale_length = 7
       \/ call.half_steps = 4 /\ call.scale_length = 12

\* C14: for every scale length other than 7, up_by(h, length) with h in
\* {1,2,3} keeps the letter and the octave and raises the accidental count by
\* exactly h.
C14_OtherLengthsStackAccidentals ==
    (UpByDone /\ call.scale_length # 7 /\ call.half_steps \in {1, 2, 3}) =>
        /\ ret.returned
        /\ err = "none"
        /\ ret.value.letter = call.note.letter
        /\ ret.value.octave = call.note.octave
        /\ AccidentalCount(ret.value) = AccidentalCount(call.note) + call.half_steps

\* B flat 9 up an augmented second on a scale of eight: B double sharp 9
C14_Witness ==
    /\ UpByDone
    /\ call.scale_length = 8
    /\ call.half_steps = 3
    /\ call.note = [letter |-> "B", sharp_flat |-> <<FLAT>>, octave |-> 9]
    /\ ret.value = [letter |-> "B", sharp_flat |-> <<SHARP, SHARP>>, octave |-> 9]

RECURSIVE StepSum(_)
StepSum(pattern) ==
    IF pattern = <<>> THEN 0 ELSE StepOf(Head(pattern)) + StepSum(Tail(pattern))

ScaleCalled == call.op = "Scale" /\ gen # NoGen

\* C15: every pattern of the 11 catalog scale types is written with H, W and
\* 3 only and its steps sum to 12, so building a Scale of a catalog type never
\* raises InvalidScaleSizeError.
C15_CatalogFillsOctave ==
    /\ Cardinality(DOMAIN SCALE_TYPE_INFO) = 11
    /\ \A key \in DOMAIN SCALE_TYPE_INFO :
          /\ \A i \in 1..Len(SCALE_TYPE_INFO[key].pattern) :
                SCALE_TYPE_INFO[key].pattern[i] \in {"H", "W", "3"}
          /\ StepSum(SCALE_TYPE_INFO[key].pattern) = 12
    /\ (ScaleCalled /\ call.scale_type \in CatalogScaleTypes) =>
          /\ err # "InvalidScaleSizeError"
          /\ scale # NoScale => SumSeq(scale.pattern) = 12

\* a Harmonic Minor scale, the type with an augmented second, was built
C15_Witness ==
    /\ ScaleCalled
    /\ call.scale_type = SCALE_TYPE_INFO["e"]
    /\ err = "none"
    /\ scale.pattern = <<2, 1, 2, 2, 1, 3, 1>>

\* the constructor was given a scale type whose steps do not sum to 12
BadPatternGiven ==
    /\ call.op = "Scale"
    /\ call.scale_type # NoScaleInfo
    /\ StepSum(call.scale_type.pattern) # 12

\* C16 as stated: a Scale of a scale type whose pattern does not sum to 12
\* fails with InvalidScaleSizeError and no Scale exists.
C16_BadPatternRaisesScaleSize ==
    BadPatternGiven => (err = "InvalidScaleSizeError" /\ scale = NoScale)

\* C16, amended: such a construction always fails and leaves no Scale; the
\* error is InvalidScaleSizeError whenever a clef and a start are given or can
\* be drawn, and otherwise the IndexError or KeyError of the draw, which
\* comes before the pattern is looked at.
C16_BadPatternNeverConstructs ==
    BadPatternGiven =>
        /\ scale = NoScale
        /\ err \in {"InvalidScaleSizeError", "IndexError", "KeyError"}
        /\ (call.starts_on # NoStart /\ call.clef # "None")
              => err = "InvalidScaleSizeError"
        /\ err = "InvalidScaleSizeError" <=> "starts_on" \in DOMAIN gen
        /\ err = "IndexError" =>
              \/ call.clef = "None" /\ Elements(settings.clefs) \cap DOMAIN CLEFS = {}
              \/ call.starts_on = NoStart /\ gen.possible_starts = {}
        /\ err = "KeyError" => (call.starts_on = NoStart /\ call.clef \notin DOMAIN CLEFS)

\* a pattern one step short, with start and clef given, and the same with the
\* clef left to settings that enable none
C16_Witness ==
    /\ BadPatternGiven
    /\ scale = NoScale
    /\ call.scale_type.name = "Short"
    /\ \/ call.starts_on = <<"C", "4">> /\ call.clef = "Treble"
          /\ err = "InvalidScaleSizeError"
       \/ call.clef = "None" /\ settings.clefs = <<"Percussion">>
          /\ err = "IndexError"

-----------------------------------------------------------------------------
(* The settings menu: settings.py *)

\* alpha 1. and .3, in tenths
ACTIVE == 10

INACTIVE == 3

\* CLEFS.values(), in the order the dictionary is written
CLEF_ORDER ==
    <<"Bass", "Treble", "Baritone", "Tenor", "Alto", "Mezzo-Soprano", "Soprano">>

\* no Settings object yet
NoSettings == [scale_types |-> <<"None">>]

\* list.remove(x): the first x leaves the list
ListRemove(list, x) ==
    Without(list, CHOOSE i \in 1..Len(list) :
                      list[i] = x /\ \A j \in 1..(i - 1) : list[j] # x)

\* if x in list: list.remove(x) else: list.append(x)
Toggled(list, x) ==
    IF x \in Elements(list) THEN ListRemove(list, x) ELSE Append(list, x)

\* the number keys, and the same keys of the number pad
NumberKeys == <<"1", "2", "3", "4", "5", "6", "7", "8", "9">>

NumpadKeys == <<"[1]", "[2]", "[3]", "[4]", "[5]", "[6]", "[7]", "[8]", "[9]">>

\* str(key).replace("[", "").replace("]", "")
ignore_numpad(key) ==
    IF \E i \in 1..Len(NumpadKeys) : NumpadKeys[i] = key
    THEN NumberKeys[CHOOSE i \in 1..Len(NumpadKeys) : NumpadKeys[i] = key]
    ELSE key

\* Menu.select: the place of the entry the key chooses, or 0 where int(key)
\* raises ValueError or the place is out of the list (IndexError)
Menu_select(entries, key) ==
    LET stripped == ignore_numpad(key)
    IN  IF stripped = "0" THEN 0
        ELSE IF \E i \in 1..Len(NumberKeys) : NumberKeys[i] = stripped
             THEN LET selection == CHOOSE i \in 1..Len(NumberKeys) : NumberKeys[i] = stripped
                  IN  IF selection > entries THEN 0 ELSE selection
             ELSE 0

\* the alpha of each entry of a submenu that lists names
NamesShown(names, enabled) ==
    [i \in 1..Len(names) |->
        [text |-> names[i],
         alpha |-> IF names[i] \in Elements(enabled) THEN ACTIVE ELSE INACTIVE]]

\* SettingsScreen.standard_scales
standard_scales(s, m) ==
    [settings |-> s,
     menu |-> [m EXCEPT !.active_sub_menu = "standard scales",
                        !.sub_menu = NamesShown(NORMAL_SCALE_NAMES, s.scale_types)]]

\* SettingsScreen.church_modes
church_modes(s, m) ==
    [settings |-> s,
     menu |-> [m EXCEPT !.active_sub_menu = "church modes",
                        !.sub_menu = NamesShown(CHURCH_MODES_NAMES, s.scale_types)]]

\* SettingsScreen.clefs
clefs(s, m) ==
    [settings |-> s,
     menu |-> [m EXCEPT !.active_sub_menu = "clefs",
                        !.sub_menu = NamesShown(CLEF_ORDER, s.clefs)]]

\* SettingsScreen.toggle_clef
toggle_clef(s, m, clef_name) ==
    clefs([s EXCEPT !.clefs = Toggled(@, clef_name)], m)

\* SettingsScreen.ledger_lines: the limits validated, the two glyphs shown
ledger_lines(s, m) ==
    LET validated == validate_ledger_lines(s)
        low_ledger_line ==
            NOTES_START + LEDGER_LINES + 1 - validated.max_low_ledger_positions
        high_ledger_line ==
            NOTES_START + TOTAL_NOTES - LEDGER_LINES + validated.max_high_ledger_positions
    IN  [settings |-> validated,
         menu |->
            IF m.active_sub_menu = "ledger lines"
            THEN [m EXCEPT !.sub_menu =
                     <<[text |-> low_ledger_line,
                        alpha |-> IF m.active_sub_menu_left THEN ACTIVE ELSE INACTIVE],
                       [text |-> high_ledger_line,
                        alpha |-> IF m.active_sub_menu_left THEN INACTIVE ELSE ACTIVE]>>]
            ELSE [m EXCEPT !.active_sub_menu = "ledger lines",
                           !.active_sub_menu_left = TRUE,
                           !.sub_menu = <<[text |-> low_ledger_line, alpha |-> ACTIVE],
                                          [text |-> high_ledger_line, alpha |-> INACTIVE]>>]]

\* SettingsScreen.exit_sub_menu
exit_sub_menu(s, m) ==
    [settings |-> s,
     menu |-> [m EXCEPT !.active_sub_menu = "", !.active_sub_menu_left = TRUE,
                        !.sub_menu = <<>>]]

\* case "ledger lines" of void_keyPressed
KeyInLedgerLines(s, m, key) ==
    IF key = "escape" THEN exit_sub_menu(s, m)
    ELSE LET left   == IF key \in {"left", "right"}
                       THEN ~m.active_sub_menu_left ELSE m.active_sub_menu_left
             change == IF key \in {"up", "down"} THEN pm_bool(key = "down") ELSE 0
             moved  == IF left
                       THEN [s EXCEPT !.max_low_ledger_positions = @ + change]
                       ELSE [s EXCEPT !.max_high_ledger_positions = @ - change]
         IN  ledger_lines(moved, [m EXCEPT !.active_sub_menu_left = left])

\* case "standard scales" and case "church modes" of void_keyPressed
KeyInScales(s, m, key, keys, names) ==
    IF key \notin Elements(keys)
    THEN IF key = "escape" THEN exit_sub_menu(s, m) ELSE [settings |-> s, menu |-> m]
    ELSE LET scale_name == SCALE_TYPE_INFO[key].name
             toggled == IF scale_name \in Elements(names)
                        THEN [s EXCEPT !.scale_types = Toggled(@, scale_name)]
                        ELSE s
         IN  IF m.active_sub_menu = "standard scales"
             THEN standard_scales(toggled, m) ELSE church_modes(toggled, m)

\* case "clefs" of void_keyPressed
KeyInClefs(s, m, key) ==
    LET selection == Menu_select(Len(CLEF_ORDER), key)
    IN  IF selection # 0 THEN toggle_clef(s, m, CLEF_ORDER[selection])
        ELSE IF key = "escape" THEN exit_sub_menu(s, m)
        ELSE [settings |-> s, menu |-> m]

\* the four entries of the SettingsScreen
SettingsEntries == 4

\* case _ of void_keyPressed: an entry chosen, or the menu left on escape
KeyInMenu(s, m, key) ==
    LET selection == Menu_select(SettingsEntries, key)
    IN  CASE selection = 1 -> standard_scales(s, m)
          [] selection = 2 -> church_modes(s, m)
          [] selection = 3 -> clefs(s, m)
          [] selection = 4 -> ledger_lines(s, m)
          [] OTHER -> [settings |-> s,
                       menu |-> IF key = "escape" THEN [m EXCEPT !.open = FALSE] ELSE m]

\* void_keyPressed(menu, key): the settings and the menu after the key
KeyPressed(s, m, key) ==
    CASE m.active_sub_menu = "ledger lines" -> KeyInLedgerLines(s, m, key)
      [] m.active_sub_menu = "standard scales" ->
            KeyInScales(s, m, key, NORMAL_SCALE_KEYS, NORMAL_SCALE_NAMES)
      [] m.active_sub_menu = "church modes" ->
            KeyInScales(s, m, key, CHURCH_MODES_KEYS, CHURCH_MODES_NAMES)
      [] m.active_sub_menu = "clefs" -> KeyInClefs(s, m, key)
      [] OTHER -> KeyInMenu(s, m, key)

\* void_setup: SettingsScreen(...), its settings made by Settings.load.
\* With no file Settings(**DEFAULT_CONFIG) is given the lists of the dictionary
\* themselves, and validation assigns the same lists where one is empty.
void_setup ==
    /\ ~menu.open
    /\ LET config == IF config_file = NoFile THEN default_config ELSE config_file
       IN  /\ settings' = validate(config)
           /\ aliased' = {f \in {"scale_types", "clefs"} :
                             config_file = NoFile \/ config[f] = <<>>}
           /\ call' = [op |-> "Settings", config |-> config]
    /\ menu' = [NoMenu EXCEPT !.open = TRUE]
    /\ UNCHANGED <<default_config, config_file, presses, walk_vars, scale_vars, str_vars,
                   ret, err, world_vars, object_vars>>

\* void_keyPressed(menu, key). The lists are changed in place, so a list that
\* is the list of DEFAULT_CONFIG changes there too; escape in the menu itself
\* saves the settings to .config.json and pops the scene.
void_keyPressed(key) ==
    /\ menu.open
    /\ presses < MaxPresses
    /\ presses' = presses + 1
    /\ LET after == KeyPressed(settings, menu, key)
       IN  /\ settings' = after.settings
           /\ menu' = after.menu
           /\ config_file' = IF after.menu.open THEN config_file ELSE after.settings
           /\ default_config' =
                 [default_config EXCEPT
                    !.scale_types = IF "scale_types" \in aliased
                                    THEN after.settings.scale_types ELSE @,
                    !.clefs = IF "clefs" \in aliased THEN after.settings.clefs ELSE @]
    /\ call' = [op |-> "keyPressed", key |-> key,
                active_sub_menu |-> menu.active_sub_menu,
                active_sub_menu_left |-> menu.active_sub_menu_left,
                max_low_ledger_positions |-> settings.max_low_ledger_positions,
                max_high_ledger_positions |-> settings.max_high_ledger_positions]
    /\ UNCHANGED <<aliased, walk_vars, scale_vars, str_vars, ret, err, world_vars,
                   object_vars>>

\* the program started, no SettingsScreen yet; .config.json as some run left it
\* or as it was written by hand
InitSettings(files) ==
    /\ WalkIdle
    /\ settings = NoSettings
    /\ ScaleIdle
    /\ StrIdle
    /\ CallIdle
    /\ err = "none"
    /\ WorldIdle
    /\ menu = NoMenu
    /\ default_config = DEFAULT_CONFIG
    /\ config_file \in files
    /\ aliased = {}
    /\ presses = 0
    /\ ObjectsIdle

-----------------------------------------------------------------------------
(* The ledger-lines submenu *)

\* what the file may hold for a limit: in the range, at its ends, outside it
FileLedgerLimits == {-2, 0, 1, LEDGER_LINES, LEDGER_LINES + 1, LEDGER_LINES + 3}

LedgerFiles ==
    {NoFile} \cup
    { [DEFAULT_CONFIG EXCEPT !.max_low_ledger_positions = low,
                             !.max_high_ledger_positions = high] :
        low \in FileLedgerLimits, high \in FileLedgerLimits }

LedgerKeys == {"4", "[4]", "left", "right", "up", "down", "escape", "x", "5"}

InitLedger == InitSettings(LedgerFiles)

NextLedger == void_setup \/ \E key \in LedgerKeys : void_keyPressed(key)

SpecLedger == InitLedger /\ [][NextLedger]_vars

-----------------------------------------------------------------------------
(* Enabling and disabling scale types and clefs *)

MenuFiles ==
    {NoFile,
     [DEFAULT_CONFIG EXCEPT !.scale_types = <<>>, !.clefs = <<>>],
     [DEFAULT_CONFIG EXCEPT !.scale_types = <<"Dorian">>, !.clefs = <<"Bass">>]}

MenuKeys == {"1", "2", "3", "q", "escape"}

InitMenu == InitSettings(MenuFiles)

NextMenu == void_setup \/ \E key \in MenuKeys : void_keyPressed(key)

SpecMenu == InitMenu /\ [][NextMenu]_vars

-----------------------------------------------------------------------------
(* Settings and the settings menu: claims *)

\* the last operation made the Settings object
SettingsConstructed == call.op = "Settings"

\* a Settings object exists: it was made, and keys may have been handled since
SettingsExist == call.op \in {"Settings", "keyPressed"}

\* C17: a Settings object made from an empty scale_types list has the four
\* built-in scale types, one made from an empty clefs list has Treble and
\* Bass, a list that is not empty is kept as given, and nothing is raised
C17_EmptyListsGetDefaults ==
    SettingsConstructed =>
        /\ err = "none"
        /\ settings.scale_types =
              IF call.config.scale_types = <<>>
              THEN DEFAULT_CONFIG.scale_types ELSE call.config.scale_types
        /\ settings.clefs =
              IF call.config.clefs = <<>>
              THEN DEFAULT_CONFIG.clefs ELSE call.config.clefs

\* the limit a key of the ledger-lines submenu asks for, before it is validated
LedgerAsked(field) ==
    LET change == IF call.key \in {"up", "down"} THEN pm_bool(call.key = "down") ELSE 0
        left   == IF call.key \in {"left", "right"}
                  THEN ~call.active_sub_menu_left ELSE call.active_sub_menu_left
    IN  IF field = "low"
        THEN call.max_low_ledger_positions + (IF left THEN change ELSE 0)
        ELSE call.max_high_ledger_positions - (IF left THEN 0 ELSE change)

\* a key other than escape was handled in the ledger-lines submenu
LedgerKeyHandled ==
    /\ call.op = "keyPressed"
    /\ call.active_sub_menu = "ledger lines"
    /\ call.key # "escape"

\* C18: once the Settings are made and after every key the menu handles both
\* ledger limits are within 0..LEDGER_LINES, and a key of the ledger-lines
\* submenu that asks for a value outside leaves the limit at the bound
C18_LedgerLimitsInRange ==
    SettingsExist =>
        /\ settings.max_low_ledger_positions \in 0..LEDGER_LINES
        /\ settings.max_high_ledger_positions \in 0..LEDGER_LINES
        /\ LedgerKeyHandled =>
              /\ settings.max_low_ledger_positions =
                    Max(Min(LedgerAsked("low"), LEDGER_LINES), 0)
              /\ settings.max_high_ledger_positions =
                    Max(Min(LedgerAsked("high"), LEDGER_LINES), 0)

\* a key asked for a low limit below 0 and the limit stayed 0, the Settings
\* having been made from a file
C18_Witness ==
    /\ LedgerKeyHandled
    /\ call.key = "up"
    /\ call.active_sub_menu_left
    /\ LedgerAsked("low") < 0
    /\ settings.max_low_ledger_positions = 0
    /\ config_file # NoFile

\* C20: whatever keys the settings menu has handled, at least one scale type
\* and at least one clef are enabled
C20_EnabledListsNonEmpty ==
    SettingsExist => settings.scale_types # <<>> /\ settings.clefs # <<>>

-----------------------------------------------------------------------------
(* A Scale in use: make_text, move_down, str and repr *)

\* at most MaxTraversals traversals are made in a run
MaxTraversals == 3

\* a Scale is moved down until its text is at MaxFall
MaxFall == 2

\* self: the fields of the Scale with its designer objects
Self == scale @@ objects

ScaleOf(self) ==
    [pattern |-> self.pattern, starts_on |-> self.starts_on, clef |-> self.clef]

ObjectsOf(self) ==
    [background |-> self.background, display |-> self.display, blur |-> self.blur]

\* Scale.make_text up to self.display.text = str(self)
make_text_position(self, x, y) ==
    [self EXCEPT !.background.x = x,
                 !.background.y = y - 10,
                 !.background.width = BACKGROUND_WIDTH,
                 !.background.height = BACKGROUND_HEIGHT,
                 !.display.x = x,
                 !.display.y = y]

\* Scale.make_text after it: the blur put on the background and hidden
make_text_blur(self) ==
    [self EXCEPT !.blur.x = self.background.x,
                 !.blur.y = self.background.y,
                 !.blur.visible = FALSE]

\* the Scale moved down, and its starting note moved up an octave with it
move_down_transposing(self, speed) ==
    [self EXCEPT !.background.y = @ + speed,
                 !.display.y = @ + speed,
                 !.blur.y = @ + speed,
                 !.starts_on.octave = (@ + 1) % 10]

\* Scale.move_down
move_down(self, speed) ==
    [self EXCEPT !.background.y = @ + speed,
                 !.display.y = @ + speed,
                 !.blur.y = @ + speed]

\* the loop of Scale.__repr__: the notes up_by returns, one after the other,
\* up to the first call that raises
RECURSIVE ReprWalk(_, _, _)
ReprWalk(note, steps, scale_length) ==
    IF steps = <<>> \/ up_by_error(note, Head(steps), scale_length) # "none"
    THEN <<>>
    ELSE LET next_note == up_by(note, Head(steps), scale_length)
         IN  <<next_note>> \o ReprWalk(next_note, Tail(steps), scale_length)

\* repr(note): Note defines no __repr__, so the text is that of object, which
\* names the address of the Note; one address stands for all of a call
NoteObjectReprs == {"<scale.Note object at 0x1>", "<scale.Note object at 0x2>"}

UseScaleTypes == {SCALE_TYPE_INFO[key] : key \in {"q", "e", "2"}}

UseStarts == {<<"C", "4">>, <<"F", "#", "3">>, <<"B", "b", "4">>, <<"B", "9">>}

UseClefs == {"Treble", "Bass"}

UseColumns == {1, 2}

\* one Scale is built
UseNewScale ==
    /\ gen = NoGen
    /\ \E scale_type \in UseScaleTypes, starts_on \in UseStarts, clef \in UseClefs :
          ScaleInit(scale_type, starts_on, clef)

\* scale.make_text(x, y), up to the call of str(self)
MakeTextBegin(x, y) ==
    /\ pc = "idle"
    /\ scale # NoScale
    /\ Len(traversals) < MaxTraversals
    /\ LET self == make_text_position(Self, x, y)
       IN  /\ scale' = ScaleOf(self)
           /\ objects' = ObjectsOf(self)
           /\ this_note' = self.starts_on
           /\ disp_text' = <<self.clef.symbol>>
    /\ pc' = "str"
    /\ str_i' = 1
    /\ shown' = <<>>
    /\ err' = "none"
    /\ UNCHANGED <<world_vars, walk_vars, settings, menu_vars, gen, display_text,
                   traversals, call_vars>>

\* str(self) returned: the text stored, the blur placed and hidden
MakeTextReturn ==
    /\ pc = "str"
    /\ str_i = Len(StrSteps(scale.pattern)) + 1
    /\ display_text' = disp_text
    /\ LET self == make_text_blur(Self)
       IN  /\ scale' = ScaleOf(self)
           /\ objects' = ObjectsOf(self)
    /\ traversals' = Append(traversals, [by |-> "str", notes |-> shown])
    /\ pc' = "idle"
    /\ UNCHANGED <<world_vars, walk_vars, settings, menu_vars, gen, this_note, disp_text,
                   str_i, shown, call_vars, err>>

\* scale.move_down(speed)
CallMoveDown(speed) ==
    /\ pc = "idle"
    /\ scale # NoScale
    /\ objects.display.y < MaxFall
    /\ LET self == move_down(Self, speed)
       IN  /\ scale' = ScaleOf(self)
           /\ objects' = ObjectsOf(self)
    /\ UNCHANGED <<world_vars, walk_vars, settings, menu_vars, gen, display_text,
                   traversals, str_vars, call_vars, err>>

\* repr(scale)
CallRepr ==
    /\ pc = "idle"
    /\ scale # NoScale
    /\ Len(traversals) < MaxTraversals
    /\ LET walked == ReprWalk(scale.starts_on, scale.pattern, Len(scale.pattern))
       IN  IF Len(walked) = Len(scale.pattern)
           THEN /\ \E note_repr \in NoteObjectReprs :
                      ret' = Returned(
                         string_form(scale.starts_on, NoClef, KeySignatureDefault, FALSE)
                         \o [i \in 1..(2 * Len(walked)) |->
                                IF i % 2 = 1 THEN " " ELSE note_repr])
                /\ traversals' = Append(traversals,
                                        [by |-> "repr",
                                         notes |-> <<scale.starts_on>> \o walked])
                /\ err' = "none"
           ELSE /\ err' = "ValueError"
                /\ UNCHANGED <<ret, traversals>>
    /\ UNCHANGED <<world_vars, walk_vars, settings, menu_vars, scale_vars, objects,
                   str_vars, call>>

NextUse ==
    \/ UseNewScale
    \/ \E x \in UseColumns : MakeTextBegin(x, 0)
    \/ StrStep
    \/ MakeTextReturn
    \/ CallMoveDown(1)
    \/ CallRepr

SpecUse == Init /\ [][NextUse]_vars

\* C19: whatever str, repr, make_text and move_down calls a Scale has seen, its
\* pattern, starting note and clef are those its constructor set, and all
\* traversals made so far went over the same notes
C19_TraversalsLeaveScaleUnchanged ==
    scale # NoScale =>
        /\ scale.pattern = [i \in 1..Len(gen.scale_type.pattern) |->
                               int_from_pattern(gen.scale_type.pattern[i])]
        /\ scale.starts_on = Note(gen.starts_on)
        /\ scale.clef = CLEFS[gen.clef]
        /\ \A i, j \in 1..Len(traversals) : traversals[i].notes = traversals[j].notes

\* a Scale shown, moved down, then traversed by repr and again by str
C19_Witness ==
    /\ Len(traversals) = 3
    /\ traversals[1].by = "str"
    /\ traversals[2].by = "repr"
    /\ traversals[3].by = "str"
    /\ Len(traversals[1].notes) = Len(scale.pattern) + 1
    /\ objects.display.y = MaxFall
    /\ ~objects.blur.visible

\* C25: whatever Settings have been made and whatever keys the settings menu
\* has handled, DEFAULT_CONFIG still holds the four built-in scale types and
\* the clefs Treble and Bass
C25_DefaultConfigConstant ==
    /\ default_config.scale_types = DEFAULT_CONFIG.scale_types
    /\ default_config.clefs = DEFAULT_CONFIG.clefs

-----------------------------------------------------------------------------
(* Selecting among the boulders: World.select on any world *)

SelectColumns == 1..MaxColumn

\* the y of a boulder: above the top of the window, at it, below it
SelectHeights == {-1, 0, 2}

\* world.boulders: boulders in distinct columns, in any order of insertion
SelectBoulders ==
    { [i \in DOMAIN places |->
          [NewBoulder(places[i][1], SCALE_TYPE_INFO["q"]) EXCEPT !.y = places[i][2]]] :
        places \in { p \in UNION { [1..k -> SelectColumns \X SelectHeights] :
                                      k \in 0..MaxColumn } :
                        \A i, j \in DOMAIN p : i # j => p[i][1] # p[j][1] } }

\* a world as the game may have left it: the selection is 0, the key of a
\* boulder, or the key of one that is gone
InitSelect ==
    /\ WalkIdle
    /\ settings = GameSettings
    /\ ScaleIdle
    /\ StrIdle
    /\ CallIdle
    /\ err = "none"
    /\ boulders \in SelectBoulders
    /\ score = 0
    /\ selected \in 0..(MaxColumn + 1)
    /\ spawned = Len(boulders)
    /\ MenuIdle
    /\ ObjectsIdle

\* world.select_next() / world.select_previous()
CallSelect(right) ==
    /\ select(right)
    /\ call' = [op |-> "select", right |-> right, selected |-> selected]
    /\ UNCHANGED <<score, spawned, pc, err>>
    /\ GameUnchanged

NextSelect == CallSelect(TRUE) \/ CallSelect(FALSE)

SpecSelect == InitSelect /\ [][NextSelect]_vars

\* the keys of the boulders below the top of the window
OnScreenKeys == {boulders[i].x : i \in {j \in 1..Len(boulders) : boulders[j].y > 0}}

SetMin(S) == CHOOSE x \in S : \A y \in S : x <= y

SetMax(S) == CHOOSE x \in S : \A y \in S : x >= y

\* C21: with a boulder below the top of the window select_next selects the
\* smallest on-screen key greater than the selection, or the smallest of all
\* when none is greater, and select_previous the largest smaller one, or the
\* largest of all; the selected boulder then has alpha 1 and the other
\* on-screen boulders alpha 0.5. With no boulders the selection becomes 0.
C21_SelectNextPrevious ==
    call.op = "select" =>
        /\ boulders = <<>> => selected = 0
        /\ OnScreenKeys # {} =>
              LET greater == {k \in OnScreenKeys : k > call.selected}
                  smaller == {k \in OnScreenKeys : k < call.selected}
              IN  /\ call.right =>
                        selected = IF greater # {} THEN SetMin(greater)
                                   ELSE SetMin(OnScreenKeys)
                  /\ ~call.right =>
                        selected = IF smaller # {} THEN SetMax(smaller)
                                   ELSE SetMax(OnScreenKeys)
                  /\ \A i \in 1..Len(boulders) :
                        boulders[i].y > 0 =>
                           boulders[i].alpha = IF boulders[i].x = selected
                                               THEN ALPHA_FULL ELSE ALPHA_DIMMED

\* select_next with two on-screen boulders to the right of the selection and,
\* nearer than both, one that is not below the top of the window: the nearer
\* of the two is selected
C21_Witness ==
    /\ call.op = "select"
    /\ call.right
    /\ Cardinality({k \in OnScreenKeys : k > call.selected}) >= 2
    /\ selected = SetMin({k \in OnScreenKeys : k > call.selected})
    /\ \E i \in 1..Len(boulders) :
          /\ boulders[i].y <= 0
          /\ call.selected < boulders[i].x
          /\ boulders[i].x < selected

-----------------------------------------------------------------------------
(* Constrained generation of every catalog type on every clef, at every pair
   of ledger limits, and the Scale shown *)

InitStart ==
    /\ WalkIdle
    /\ settings \in ClefSettings
    /\ ScaleIdle
    /\ StrIdle
    /\ CallIdle
    /\ err = "none"
    /\ WorldIdle
    /\ MenuIdle
    /\ ObjectsIdle

\* Scale(world, scale_type, clef=clef): the start is drawn
StartNewScale ==
    /\ gen = NoGen
    /\ call = NoCall
    /\ \E scale_type \in CatalogScaleTypes, clef \in ClefNames :
          ScaleInit(scale_type, NoStart, clef)

NextStart == StartNewScale \/ StrBegin \/ StrStep \/ StrReturn

SpecStart == InitStart /\ [][NextStart]_vars

\* the constructor was asked for a Scale of a type on a clef, the start left to it
StartDrawn == call.op = "Scale" /\ call.starts_on = NoStart

\* C22: for every catalog type, every clef of CLEFS and all ledger limits in
\* 0..LEDGER_LINES the type's possible starts and the clef's notes have a note
\* in common, and the constructor builds a Scale from one of them
C22_StartAlwaysExists ==
    StartDrawn =>
        /\ err = "none"
        /\ gen.possible_starts # {}
        /\ gen.possible_starts =
              gen.scale_type.possible_starts \cap all_notes(CLEFS[gen.clef], settings)
        /\ gen.starts_on \in gen.possible_starts
        /\ scale # NoScale

\* a Scale built with no ledger position allowed on either side
C22_Witness ==
    /\ StartDrawn
    /\ scale # NoScale
    /\ settings.max_low_ledger_positions = 0
    /\ settings.max_high_ledger_positions = 0
    /\ gen.scale_type.name = "Lochrian"
    /\ gen.clef = "Mezzo-Soprano"

\* the Scale was generated and its text has been made in full
ShownInFull ==
    /\ StartDrawn
    /\ scale # NoScale
    /\ pc = "idle"
    /\ display_text # <<>>

\* C23: every note a generated Scale shows, the len(pattern) + 1 of them, has
\* a staff index between 5 - low and 13 + high on the Scale's clef, each one
\* above the one before; with both limits 0 these are the lines and spaces
\* of the staff
C23_ShownNotesWithinLedgerLimits ==
    (StartDrawn /\ scale # NoScale) =>
        /\ \A i \in 1..Len(shown) :
              /\ font_offset_number(shown[i], scale.clef) >=
                    LEDGER_LINES + 1 - settings.max_low_ledger_positions
              /\ font_offset_number(shown[i], scale.clef) <=
                    LEDGER_LINES + STAFF_LINES + STAFF_SPACES
                    + settings.max_high_ledger_positions
              /\ i > 1 => font_offset_number(shown[i], scale.clef) =
                             font_offset_number(shown[i - 1], scale.clef) + 1
        /\ ShownInFull => Len(shown) = Len(scale.pattern) + 1

\* no ledger position allowed, and a Scale shown from the first space to the
\* top line of the staff
C23_Witness ==
    /\ ShownInFull
    /\ settings.max_low_ledger_positions = 0
    /\ settings.max_high_ledger_positions = 0
    /\ font_offset_number(shown[1], scale.clef) = LEDGER_LINES + 2
    /\ font_offset_number(shown[Len(shown)], scale.clef) =
          LEDGER_LINES + STAFF_LINES + STAFF_SPACES

\* the Scale is of a catalog type and starts on one of the type's starts
CatalogStart ==
    /\ scale # NoScale
    /\ gen.scale_type \in CatalogScaleTypes
    /\ gen.starts_on \in gen.scale_type.possible_starts

\* C24: walking the pattern of a catalog type from any of the type's starts
\* reaches no note with more than two sharps or more than two flats
C24_AccidentalsWithinTwo ==
    CatalogStart =>
        \A i \in 1..Len(shown) :
            /\ get_sharp_flat(shown[i]) >= -2
            /\ get_sharp_flat(shown[i]) <= 2

\* a whole walk that reaches a double sharp: the raised seventh of a minor
\* scale that starts on a sharp
C24_Witness ==
    /\ CatalogStart
    /\ Len(shown) = Len(scale.pattern) + 1
    /\ get_sharp_flat(shown[1]) = 1
    /\ \E i \in 1..Len(shown) : get_sharp_flat(shown[i]) = 2

=============================================================================
